---- MODULE Spec2Model ----
(***************************************************************************)
(* pandoc-notion: conversion of a pandoc (panflute) AST into Notion block  *)
(* objects and their wire (dict) form.                                     *)
(*                                                                         *)
(* Strings are modelled as sequences of one-character atoms, so that       *)
(* concatenation, prefix tests and stripping are computed, not assumed.    *)
(* A Python exception is modelled by the field `raised` of a result.       *)
(***************************************************************************)
EXTENDS Integers, Sequences, FiniteSets, TLC

VARIABLES ast, base, contentIsList, registry, shared, visited, config, result, wire, raised, phase

vars == <<ast, base, contentIsList, registry, shared, visited, config, result, wire, raised, phase>>

(***************************************************************************)
(* Bounds of the model.                                                    *)
(***************************************************************************)
\* nodes of an inline forest handed to the inline engine alone
MaxNodes == 5
\* nodes of the inline content of a paragraph (all inline node kinds)
MaxInlineNodes == 4
\* items of a list node, nested items included
MaxListItems == 3
\* blocks inside a blockquote node, nested ones included
MaxQuoteBlocks == 3
\* managers of a registry built from a custom manager list
MaxManagers == 3
\* top-level blocks of a document
MaxDocBlocks == 3
\* the deepest source heading level
MaxHeadingLevel == 6
\* classes of a code block
MaxClasses == 2
\* pieces of a math text
MaxChunks == 3

(***************************************************************************)
(* The AST.  Every node is a record with the same fields; a field a node   *)
(* type does not have holds the empty sequence.                            *)
(***************************************************************************)
NoText == <<>>
NoUrl == <<>>

Node(t, text, content, url) == [t |-> t, text |-> text, content |-> content, url |-> url]

Str(text) == Node("Str", text, <<>>, NoUrl)
Space == Node("Space", NoText, <<>>, NoUrl)
SoftBreak == Node("SoftBreak", NoText, <<>>, NoUrl)
LineBreak == Node("LineBreak", NoText, <<>>, NoUrl)
Code(text) == Node("Code", text, <<>>, NoUrl)
\* text of a Math node; its format is InlineMath
InlineMath(text) == Node("Math", text, <<>>, NoUrl)
\* an inline node type the package has no rule for
Image == Node("Image", NoText, <<>>, NoUrl)
Inline(t, content) == Node(t, NoText, content, IF t = "Link" THEN <<"u">> ELSE NoUrl)
Block(t, content) == Node(t, NoText, content, NoUrl)

\* the checkbox glyphs U+2610 and U+2612, each one character
OpenBox == "OPENBOX"
CheckedBox == "CHECKEDBOX"

(***************************************************************************)
(* Bounded inputs: the forests of at most n nodes over given leaves and    *)
(* container kinds (a container has at least one child).                   *)
(***************************************************************************)
RECURSIVE TreesN(_, _, _), ForestsN(_, _, _)
TreesN(leaves, kinds, n) ==
    IF n = 1 THEN leaves
    ELSE {Inline(k, f) : k \in kinds, f \in ForestsN(leaves, kinds, n - 1)}

ForestsN(leaves, kinds, n) ==
    IF n = 0 THEN {<<>>}
    ELSE UNION {{<<t>> \o f : t \in TreesN(leaves, kinds, k),
                              f \in ForestsN(leaves, kinds, n - k)} : k \in 1..n}

Forests(leaves, kinds, n) == UNION {ForestsN(leaves, kinds, k) : k \in 0..n}

(***************************************************************************)
(* models/text.py: Annotations                                             *)
(***************************************************************************)
Annotations(bold, italic) ==
    [bold |-> bold, italic |-> italic, strikethrough |-> FALSE,
     underline |-> FALSE, code |-> FALSE, color |-> "default"]

DefaultAnnotations == Annotations(FALSE, FALSE)

\* set_bold / set_italic / set_code: the new annotations and whether they changed
set_bold(a, value) == [annotations |-> [a EXCEPT !.bold = value], changed |-> a.bold # value]
set_italic(a, value) == [annotations |-> [a EXCEPT !.italic = value], changed |-> a.italic # value]
set_code(a, value) == [annotations |-> [a EXCEPT !.code = value], changed |-> a.code # value]

(***************************************************************************)
(* models/text.py: the inline elements                                     *)
(***************************************************************************)
NoLink == <<>>

Text(content, annotations, link) ==
    [cls |-> "Text", content |-> content, annotations |-> annotations, link |-> link]

EquationElement(expression, annotations) ==
    [cls |-> "EquationElement", content |-> expression, annotations |-> annotations,
     link |-> NoLink]

\* __post_init__ forces the code annotation
CodeElement(text, annotations) ==
    [cls |-> "CodeElement", content |-> text,
     annotations |-> set_code(annotations, TRUE).annotations, link |-> NoLink]

(***************************************************************************)
(* models/text.py: InlineElementConverter and its registered handlers      *)
(***************************************************************************)
\* the element types with a registered handler (text.py:351, 352, 374)
HandledTypes == {"Code", "Math", "Link"}

convert_code_element(elem, annotations) == CodeElement(elem.text, annotations)

convert_math_element(elem, annotations) == EquationElement(elem.text, annotations)

\* "".join(str(child.text) for child in elem.content if isinstance(child, pf.Str))
RECURSIVE JoinStrChildren(_, _)
JoinStrChildren(content, i) ==
    IF i > Len(content) THEN <<>>
    ELSE (IF content[i].t = "Str" THEN content[i].text ELSE <<>>)
         \o JoinStrChildren(content, i + 1)

convert_link_element(elem, annotations) ==
    Text(JoinStrChildren(elem.content, 1), annotations, elem.url)

\* InlineElementConverter.convert for an element whose type has a handler
InlineElementConverter_convert(elem, annotations) ==
    CASE elem.t = "Code" -> convert_code_element(elem, annotations)
      [] elem.t = "Math" -> convert_math_element(elem, annotations)
      [] elem.t = "Link" -> convert_link_element(elem, annotations)

(***************************************************************************)
(* managers/text_manager.py: TextManager                                   *)
(***************************************************************************)
TextManager_can_convert(elem) ==
    IF elem.t \in {"BlockQuote", "Para", "Header"} THEN FALSE
    ELSE IF elem.t \in {"Str", "SoftBreak", "LineBreak", "Space", "Link"} THEN TRUE
    ELSE IF elem.t \in {"Emph", "Strong"} THEN TRUE
    ELSE IF elem.t = "Math" THEN TRUE
    ELSE elem.t \in HandledTypes

_is_content_token(elem) ==
    elem.t \in {"Str", "Space", "SoftBreak", "LineBreak"} \/ elem.t = "Math"

_is_formatting_token(elem) == elem.t \in {"Emph", "Strong"}

_get_content_for_token(elem) ==
    CASE elem.t = "Str" -> elem.text
      [] elem.t = "Space" -> <<" ">>
      [] elem.t \in {"SoftBreak", "LineBreak"} -> <<"\n">>

\* the bug of reporting no change: the pending text is not flushed first
_apply_formatting_never_changed(elem, current_annotations) ==
    CASE elem.t = "Emph" ->
             [annotations |-> set_italic(current_annotations, TRUE).annotations,
              changed |-> FALSE]
      [] elem.t = "Strong" ->
             [annotations |-> set_bold(current_annotations, TRUE).annotations,
              changed |-> FALSE]
      [] OTHER -> [annotations |-> current_annotations, changed |-> FALSE]

_apply_formatting(elem, current_annotations) ==
    CASE elem.t = "Emph" -> set_italic(current_annotations, TRUE)
      [] elem.t = "Strong" -> set_bold(current_annotations, TRUE)
      [] OTHER -> [annotations |-> current_annotations, changed |-> FALSE]

\* "if current_text: result_elements.append(Text(current_text, annotations))"
FlushText(result_elements, current_text, current_annotations) ==
    IF current_text # <<>>
    THEN Append(result_elements, Text(current_text, current_annotations, NoLink))
    ELSE result_elements

\* the bug of starting every formatting node with no pending text
PendingText_dropped(formatting_changed, current_text) == <<>>

\* "current_text if not formatting_changed else ''": the text handed to the
\* recursive call for the children of a formatting node
PendingText(formatting_changed, current_text) ==
    IF formatting_changed THEN <<>> ELSE current_text

\* _process_stream from element i on; the value is result_elements after the call.
\* A handler result is a dataclass instance, hence truthy, so the branch of
\* lines 201-213 is never taken: every Math node has a handler.
RECURSIVE _process_stream(_, _, _, _, _)
_process_stream(elements, i, current_annotations, result_elements, current_text) ==
    IF i > Len(elements)
    THEN FlushText(result_elements, current_text, current_annotations)
    ELSE LET elem == elements[i] IN
         IF ~TextManager_can_convert(elem)
         THEN _process_stream(elements, i + 1, current_annotations,
                  FlushText(result_elements, current_text, current_annotations), <<>>)
         ELSE IF elem.t \in HandledTypes
         THEN _process_stream(elements, i + 1, current_annotations,
                  Append(FlushText(result_elements, current_text, current_annotations),
                         InlineElementConverter_convert(elem, current_annotations)),
                  <<>>)
         ELSE IF _is_content_token(elem)
         THEN _process_stream(elements, i + 1, current_annotations, result_elements,
                  current_text \o _get_content_for_token(elem))
         ELSE IF _is_formatting_token(elem)
         THEN LET f == _apply_formatting(elem, current_annotations)
                  flushed == IF f.changed
                             THEN FlushText(result_elements, current_text, current_annotations)
                             ELSE result_elements
                  inner == _process_stream(elem.content, 1, f.annotations, flushed,
                               PendingText(f.changed, current_text))
              IN _process_stream(elements, i + 1, current_annotations, inner, <<>>)
         ELSE _process_stream(elements, i + 1, current_annotations, result_elements,
                  current_text)

create_text_elements(elements, base_annotations) ==
    _process_stream(elements, 1, base_annotations, <<>>, <<>>)

(***************************************************************************)
(* models/text.py: merge_consecutive_texts.  A merged run is the first     *)
(* Text object of its group, whose content the function extends in place:  *)
(* `result` is the returned list, `texts` the argument list afterwards.    *)
(***************************************************************************)
\* a pass that appends every element and joins none
MergeFrom_keep(texts, i, res, head) == [result |-> texts, texts |-> texts]

RECURSIVE MergeFrom(_, _, _, _)
MergeFrom(texts, i, res, head) ==
    IF i > Len(texts) THEN [result |-> res, texts |-> texts]
    ELSE LET previous == res[Len(res)]
             current == texts[i]
         IN IF /\ previous.cls = "Text"
               /\ current.cls = "Text"
               /\ previous.annotations = current.annotations
               /\ previous.link = current.link
            THEN LET merged == previous.content \o current.content
                 IN MergeFrom([texts EXCEPT ![head].content = merged], i + 1,
                              [res EXCEPT ![Len(res)].content = merged], head)
            ELSE MergeFrom(texts, i + 1, Append(res, current), i)

\* a pass that joins the first two elements only
MergeRun_pair(texts) ==
    IF Len(texts) >= 2 /\ texts[1].cls = "Text" /\ texts[2].cls = "Text"
       /\ texts[1].annotations = texts[2].annotations /\ texts[1].link = texts[2].link
    THEN [result |-> <<[texts[1] EXCEPT !.content = @ \o texts[2].content]>>
                         \o SubSeq(texts, 3, Len(texts)),
          texts |-> texts]
    ELSE [result |-> texts, texts |-> texts]

MergeRun(texts) ==
    IF texts = <<>> THEN [result |-> <<>>, texts |-> <<>>]
    ELSE MergeFrom(texts, 2, <<texts[1]>>, 1)

merge_consecutive_texts(texts) == MergeRun(texts).result

\* to_dict of Text, EquationElement and CodeElement
InlineToDict(e) ==
    IF e.cls = "EquationElement"
    THEN [type |-> "equation", expression |-> e.content,
          annotations |-> e.annotations, plain_text |-> e.content]
    ELSE IF e.cls = "CodeElement"
    THEN [type |-> "text", content |-> e.content,
          annotations |-> e.annotations, plain_text |-> e.content]
    ELSE [type |-> "text", content |-> e.content, link |-> e.link,
          annotations |-> e.annotations, plain_text |-> e.content]

RichText(texts) == [i \in 1..Len(texts) |-> InlineToDict(texts[i])]


(***************************************************************************)
(* The value of a call: what it returns, or the exception it raises.       *)
(***************************************************************************)
Returns(value) == [raised |-> "None", value |-> value]
Raises(exception) == [raised |-> exception, value |-> <<>>]

(***************************************************************************)
(* models/paragraph.py: Paragraph                                          *)
(***************************************************************************)
Paragraph(text_content) ==
    [block_type |-> "paragraph", text_content |-> text_content, children |-> <<>>]

Paragraph_to_dict(block) ==
    [object |-> "block", type |-> block.block_type,
     rich_text |-> RichText(merge_consecutive_texts(block.text_content)),
     color |-> "default"]

(***************************************************************************)
(* managers/paragraph_manager.py: ParagraphManager                         *)
(***************************************************************************)
ParagraphManager_can_convert(elem) == elem.t = "Para"

\* the loop of lines 56-81, entered when the inline engine returned nothing.
\* cls.has_manager_for is defined nowhere: reaching line 64 is an AttributeError.
RECURSIVE ParagraphFallback(_, _, _)
ParagraphFallback(content, i, texts) ==
    IF i > Len(content) THEN Returns(<<Paragraph(texts)>>)
    ELSE LET inline_elem == content[i] IN
         IF inline_elem.t \in {"Str", "Space"}
         THEN ParagraphFallback(content, i + 1,
                  Append(texts,
                         Text(IF inline_elem.t = "Str" THEN inline_elem.text ELSE <<" ">>,
                              DefaultAnnotations, NoLink)))
         ELSE Raises("AttributeError")

ParagraphManager_convert(elem) ==
    IF elem.t # "Para" THEN Raises("ValueError")
    ELSE LET text_elements == create_text_elements(elem.content, DefaultAnnotations)
         IN IF text_elements # <<>>
            THEN Returns(<<Paragraph(text_elements)>>)
            ELSE ParagraphFallback(elem.content, 1, <<>>)

(***************************************************************************)
(* models/list.py: ListItem and List                                       *)
(***************************************************************************)
BULLETED == "bulleted_list_item"
NUMBERED == "numbered_list_item"
TODO == "to_do"

\* ListItem.__init__: checked is kept only for a todo item
ListItem(item_type, checked) ==
    [text_content |-> <<>>, children |-> <<>>, item_type |-> item_type,
     checked |-> IF item_type = "todo" THEN checked ELSE FALSE]

List(initial_list_item_type, items) ==
    [block_type |-> initial_list_item_type, items |-> items]

create_bulleted_list(items) == List(BULLETED, items)
create_numbered_list(items) == List(NUMBERED, items)

IsList(block) == block.block_type \in {BULLETED, NUMBERED, TODO}

item_type_mapping(item_type) ==
    CASE item_type = "bulleted" -> BULLETED
      [] item_type = "numbered" -> NUMBERED
      [] item_type = "todo" -> TODO
      [] OTHER -> BULLETED

\* the wire block of an item, given the serialized blocks of its child lists:
\* the fields of item_dict[notion_item_type] are rich_text, color, checked (for
\* to_do only) and children (when there are any); has_children goes with children
ItemDict(item, child_blocks_data) ==
    LET notion_item_type == item_type_mapping(item.item_type)
        core == [object |-> "block", type |-> notion_item_type,
                 rich_text |-> RichText(merge_consecutive_texts(item.text_content)),
                 color |-> "default"]
        with_checked == IF notion_item_type = TODO
                        THEN core @@ [checked |-> item.checked]
                        ELSE core
    IN IF child_blocks_data # <<>>
       THEN with_checked @@ [has_children |-> TRUE, children |-> child_blocks_data]
       ELSE with_checked

\* List.to_dict: one wire block per item; ListItem.to_dict serializes the child
\* lists of an item into its children array
RECURSIVE List_to_dict(_), ItemsToDict(_, _), ChildListsToDict(_, _)
List_to_dict(list) == ItemsToDict(list.items, 1)

\* the bug of appending the nested items as siblings of their parent
ItemsToDict_siblings(items, i) ==
    IF i > Len(items) THEN <<>>
    ELSE <<ItemDict(items[i], <<>>)>> \o ChildListsToDict(items[i].children, 1)
         \o ItemsToDict(items, i + 1)

ItemsToDict(items, i) ==
    IF i > Len(items) THEN <<>>
    ELSE <<ItemDict(items[i], ChildListsToDict(items[i].children, 1))>>
         \o ItemsToDict(items, i + 1)

ChildListsToDict(children, i) ==
    IF i > Len(children) THEN <<>>
    ELSE List_to_dict(children[i]) \o ChildListsToDict(children, i + 1)

\* the List object after to_dict: every item's runs were merged in place
RECURSIVE ListAfterToDict(_)
ListAfterToDict(list) ==
    [list EXCEPT !.items =
        [i \in 1..Len(list.items) |->
            [list.items[i] EXCEPT
                !.text_content = MergeRun(list.items[i].text_content).texts,
                !.children = [j \in 1..Len(list.items[i].children) |->
                                 ListAfterToDict(list.items[i].children[j])]]]]

(***************************************************************************)
(* managers/list_manager.py: ListManager.  A conversion writes to the AST  *)
(* it is given, so each operator also gives the element after the call.    *)
(***************************************************************************)
ListManager_can_convert(elem) == elem.t \in {"BulletList", "OrderedList"}

_is_checkbox(text) == text # <<>> /\ text[1] \in {OpenBox, CheckedBox}

_is_checked_checkbox(text) == text # <<>> /\ text[1] = CheckedBox

\* str.lstrip(): the leading whitespace characters are removed
RECURSIVE lstrip(_)
lstrip(text) ==
    IF text # <<>> /\ text[1] \in {" ", "\n"} THEN lstrip(Tail(text)) ELSE text

_strip_checkbox(text) == IF _is_checkbox(text) THEN lstrip(Tail(text)) ELSE text

\* list.pop(1)
Pop1(content) == <<content[1]>> \o SubSeq(content, 3, Len(content))

\* lines 202-218: checkbox detection on the item's first Plain; the first Str and
\* the Space after it are changed in the AST itself
DetectTodo(elem) ==
    LET hit == /\ elem.content # <<>>
               /\ elem.content[1].t = "Plain"
               /\ elem.content[1].content # <<>>
               /\ elem.content[1].content[1].t = "Str"
               /\ _is_checkbox(elem.content[1].content[1].text)
    IN IF ~hit THEN [is_todo_item |-> FALSE, is_checked |-> FALSE, elem |-> elem]
       ELSE LET first_plain == elem.content[1]
                first_str == first_plain.content[1]
                stripped == [first_plain EXCEPT
                                !.content[1].text = _strip_checkbox(first_str.text)]
                popped == IF /\ Len(stripped.content) > 1
                             /\ stripped.content[2].t = "Space"
                          THEN [stripped EXCEPT !.content = Pop1(stripped.content)]
                          ELSE stripped
            IN [is_todo_item |-> TRUE,
                is_checked |-> _is_checked_checkbox(first_str.text),
                elem |-> [elem EXCEPT !.content[1] = popped]]

RECURSIVE ListManager_convert(_), _convert_list_item(_, _), ItemChildren(_, _, _),
          ConvertItems(_, _, _, _)
\* lines 225-242: a Plain child gives the item's text, a nested list a child List;
\* any other child is passed over
ItemChildren(content, i, list_item) ==
    IF i > Len(content) THEN [value |-> list_item, content |-> content]
    ELSE LET child == content[i] IN
         IF child.t = "Plain"
         THEN ItemChildren(content, i + 1,
                  [list_item EXCEPT !.text_content =
                      @ \o create_text_elements(child.content, DefaultAnnotations)])
         ELSE IF child.t \in {"BulletList", "OrderedList"}
         THEN LET nested == ListManager_convert(child)
              IN ItemChildren([content EXCEPT ![i] = nested.elem], i + 1,
                     [list_item EXCEPT !.children = Append(@, nested.value[1])])
         ELSE ItemChildren(content, i + 1, list_item)

_convert_list_item(elem, parent_type) ==
    LET todo == DetectTodo(elem)
        item_type == IF todo.is_todo_item THEN "todo" ELSE parent_type
        done == ItemChildren(todo.elem.content, 1, ListItem(item_type, todo.is_checked))
    IN [value |-> done.value, elem |-> [todo.elem EXCEPT !.content = done.content]]

\* the loops of _convert_bullet_list and _convert_ordered_list
ConvertItems(content, i, parent_type, notion_items) ==
    IF i > Len(content) THEN [value |-> notion_items, content |-> content]
    ELSE LET item == _convert_list_item(content[i], parent_type)
         IN ConvertItems([content EXCEPT ![i] = item.elem], i + 1, parent_type,
                         Append(notion_items, item.value))

ListManager_convert(elem) ==
    IF elem.t = "BulletList"
    THEN LET items == ConvertItems(elem.content, 1, "bulleted", <<>>)
         IN [raised |-> "None", value |-> <<create_bulleted_list(items.value)>>,
             elem |-> [elem EXCEPT !.content = items.content]]
    ELSE IF elem.t = "OrderedList"
    THEN LET items == ConvertItems(elem.content, 1, "numbered", <<>>)
         IN [raised |-> "None", value |-> <<create_numbered_list(items.value)>>,
             elem |-> [elem EXCEPT !.content = items.content]]
    ELSE [raised |-> "ValueError", value |-> <<>>, elem |-> elem]

(***************************************************************************)
(* models/quote.py: Quote                                                  *)
(***************************************************************************)
Quote(text_content, children) ==
    [block_type |-> "quote", text_content |-> text_content, children |-> children]

\* Quote.to_dict; a child that serializes to a list of blocks (a List) extends
\* the children array, any other child is appended to it
RECURSIVE Quote_to_dict(_), QuoteChildrenToDict(_, _)
Quote_to_dict(block) ==
    LET core == [object |-> "block", type |-> "quote",
                 rich_text |-> RichText(merge_consecutive_texts(block.text_content)),
                 color |-> "default"]
    IN IF block.children # <<>>
       THEN core @@ [has_children |-> TRUE,
                     children |-> QuoteChildrenToDict(block.children, 1)]
       ELSE core

QuoteChildrenToDict(children, i) ==
    IF i > Len(children) THEN <<>>
    ELSE LET child == children[i]
             child_dict == IF IsList(child) THEN List_to_dict(child)
                           ELSE IF child.block_type = "quote" THEN <<Quote_to_dict(child)>>
                           ELSE <<Paragraph_to_dict(child)>>
         IN child_dict \o QuoteChildrenToDict(children, i + 1)

\* a block after its to_dict: the runs it owns were merged in place
RECURSIVE BlockAfterToDict(_)
BlockAfterToDict(block) ==
    IF IsList(block) THEN ListAfterToDict(block)
    ELSE [block EXCEPT
             !.text_content = MergeRun(block.text_content).texts,
             !.children = [j \in 1..Len(block.children) |-> BlockAfterToDict(block.children[j])]]

(***************************************************************************)
(* models/heading.py: Heading; managers/heading_manager.py: HeadingManager *)
(***************************************************************************)
\* a Header node: a block with a level and inline content
Header(level, content) == Block("Header", content) @@ [level |-> level]

Min(a, b) == IF a < b THEN a ELSE b
Max(a, b) == IF a > b THEN a ELSE b

\* a heading that keeps levels above 3
Heading_unclamped(level, text_content) ==
    [block_type |-> "heading_" \o ToString(Max(level, 1)),
     level |-> Max(level, 1),
     text_content |-> text_content]

\* Heading.__init__
Heading(level, text_content) ==
    LET clamped_level == Min(Max(level, 1), 3)
    IN [block_type |-> "heading_" \o ToString(clamped_level),
        level |-> clamped_level,
        text_content |-> text_content]

\* Heading.to_dict; the key of the inner dict is the block type
Heading_to_dict(block) ==
    [object |-> "block", type |-> block.block_type, key |-> block.block_type,
     rich_text |-> RichText(merge_consecutive_texts(block.text_content)),
     color |-> "default"]

HeadingManager_convert(elem) ==
    IF elem.t # "Header" THEN Raises("ValueError")
    ELSE Returns(<<Heading(elem.level,
                           create_text_elements(elem.content, DefaultAnnotations))>>)

\* HeadingManager.convert_plain_text: a list holding one heading
convert_plain_text(text, level) ==
    <<Heading(level, <<Text(text, DefaultAnnotations, NoLink)>>)>>

(***************************************************************************)
(* models/code.py: Code; managers/code_manager.py: CodeManager             *)
(***************************************************************************)
\* a CodeBlock node: its text, its classes and its attributes (a function
\* from attribute names to values)
NoAttributes == <<>>
CodeBlock(text, classes, attributes) ==
    Node("CodeBlock", text, <<>>, NoUrl) @@ [classes |-> classes, attributes |-> attributes]

\* CodeManager.LANGUAGE_MAP as (key, value) pairs, in source order
LANGUAGE_PAIRS == <<
    <<<<"a", "b", "a", "p">>, <<"a", "b", "a", "p">>>>,
    <<<<"a", "r", "d", "u", "i", "n", "o">>, <<"a", "r", "d", "u", "i", "n", "o">>>>,
    <<<<"b", "a", "s", "h">>, <<"b", "a", "s", "h">>>>,
    <<<<"b", "a", "s", "i", "c">>, <<"b", "a", "s", "i", "c">>>>,
    <<<<"c">>, <<"c">>>>,
    <<<<"c", "l", "o", "j", "u", "r", "e">>, <<"c", "l", "o", "j", "u", "r", "e">>>>,
    <<<<"c", "o", "f", "f", "e", "e", "s", "c", "r", "i", "p", "t">>, <<"c", "o", "f", "f", "e", "e", "s", "c", "r", "i", "p", "t">>>>,
    <<<<"c", "p", "p">>, <<"c", "+", "+">>>>,
    <<<<"c", "+", "+">>, <<"c", "+", "+">>>>,
    <<<<"c", "s", "h", "a", "r", "p">>, <<"c", "#">>>>,
    <<<<"c", "#">>, <<"c", "#">>>>,
    <<<<"c", "s", "s">>, <<"c", "s", "s">>>>,
    <<<<"d", "a", "r", "t">>, <<"d", "a", "r", "t">>>>,
    <<<<"d", "i", "f", "f">>, <<"d", "i", "f", "f">>>>,
    <<<<"d", "o", "c", "k", "e", "r">>, <<"d", "o", "c", "k", "e", "r">>>>,
    <<<<"e", "l", "i", "x", "i", "r">>, <<"e", "l", "i", "x", "i", "r">>>>,
    <<<<"e", "l", "m">>, <<"e", "l", "m">>>>,
    <<<<"e", "r", "l", "a", "n", "g">>, <<"e", "r", "l", "a", "n", "g">>>>,
    <<<<"f", "l", "o", "w">>, <<"f", "l", "o", "w">>>>,
    <<<<"f", "o", "r", "t", "r", "a", "n">>, <<"f", "o", "r", "t", "r", "a", "n">>>>,
    <<<<"f", "s", "h", "a", "r", "p">>, <<"f", "#">>>>,
    <<<<"f", "#">>, <<"f", "#">>>>,
    <<<<"g", "h", "e", "r", "k", "i", "n">>, <<"g", "h", "e", "r", "k", "i", "n">>>>,
    <<<<"g", "l", "s", "l">>, <<"g", "l", "s", "l">>>>,
    <<<<"g", "o">>, <<"g", "o">>>>,
    <<<<"g", "r", "a", "p", "h", "q", "l">>, <<"g", "r", "a", "p", "h", "q", "l">>>>,
    <<<<"g", "r", "o", "o", "v", "y">>, <<"g", "r", "o", "o", "v", "y">>>>,
    <<<<"h", "a", "s", "k", "e", "l", "l">>, <<"h", "a", "s", "k", "e", "l", "l">>>>,
    <<<<"h", "t", "m", "l">>, <<"h", "t", "m", "l">>>>,
    <<<<"j", "a", "v", "a">>, <<"j", "a", "v", "a">>>>,
    <<<<"j", "a", "v", "a", "s", "c", "r", "i", "p", "t">>, <<"j", "a", "v", "a", "s", "c", "r", "i", "p", "t">>>>,
    <<<<"j", "s">>, <<"j", "a", "v", "a", "s", "c", "r", "i", "p", "t">>>>,
    <<<<"j", "s", "o", "n">>, <<"j", "s", "o", "n">>>>,
    <<<<"j", "u", "l", "i", "a">>, <<"j", "u", "l", "i", "a">>>>,
    <<<<"k", "o", "t", "l", "i", "n">>, <<"k", "o", "t", "l", "i", "n">>>>,
    <<<<"l", "a", "t", "e", "x">>, <<"l", "a", "t", "e", "x">>>>,
    <<<<"l", "e", "s", "s">>, <<"l", "e", "s", "s">>>>,
    <<<<"l", "i", "s", "p">>, <<"l", "i", "s", "p">>>>,
    <<<<"l", "i", "v", "e", "s", "c", "r", "i", "p", "t">>, <<"l", "i", "v", "e", "s", "c", "r", "i", "p", "t">>>>,
    <<<<"l", "u", "a">>, <<"l", "u", "a">>>>,
    <<<<"m", "a", "k", "e", "f", "i", "l", "e">>, <<"m", "a", "k", "e", "f", "i", "l", "e">>>>,
    <<<<"m", "a", "r", "k", "d", "o", "w", "n">>, <<"m", "a", "r", "k", "d", "o", "w", "n">>>>,
    <<<<"m", "a", "r", "k", "u", "p">>, <<"m", "a", "r", "k", "u", "p">>>>,
    <<<<"m", "a", "t", "l", "a", "b">>, <<"m", "a", "t", "l", "a", "b">>>>,
    <<<<"m", "e", "r", "m", "a", "i", "d">>, <<"m", "e", "r", "m", "a", "i", "d">>>>,
    <<<<"n", "i", "x">>, <<"n", "i", "x">>>>,
    <<<<"o", "b", "j", "e", "c", "t", "i", "v", "e", "-", "c">>, <<"o", "b", "j", "e", "c", "t", "i", "v", "e", "-", "c">>>>,
    <<<<"o", "c", "a", "m", "l">>, <<"o", "c", "a", "m", "l">>>>,
    <<<<"p", "a", "s", "c", "a", "l">>, <<"p", "a", "s", "c", "a", "l">>>>,
    <<<<"p", "e", "r", "l">>, <<"p", "e", "r", "l">>>>,
    <<<<"p", "h", "p">>, <<"p", "h", "p">>>>,
    <<<<"p", "o", "w", "e", "r", "s", "h", "e", "l", "l">>, <<"p", "o", "w", "e", "r", "s", "h", "e", "l", "l">>>>,
    <<<<"p", "r", "o", "l", "o", "g">>, <<"p", "r", "o", "l", "o", "g">>>>,
    <<<<"p", "r", "o", "t", "o", "b", "u", "f">>, <<"p", "r", "o", "t", "o", "b", "u", "f">>>>,
    <<<<"p", "y", "t", "h", "o", "n">>, <<"p", "y", "t", "h", "o", "n">>>>,
    <<<<"p", "y">>, <<"p", "y", "t", "h", "o", "n">>>>,
    <<<<"r">>, <<"r">>>>,
    <<<<"r", "e", "a", "s", "o", "n">>, <<"r", "e", "a", "s", "o", "n">>>>,
    <<<<"r", "u", "b", "y">>, <<"r", "u", "b", "y">>>>,
    <<<<"r", "u", "s", "t">>, <<"r", "u", "s", "t">>>>,
    <<<<"s", "a", "s", "s">>, <<"s", "a", "s", "s">>>>,
    <<<<"s", "c", "a", "l", "a">>, <<"s", "c", "a", "l", "a">>>>,
    <<<<"s", "c", "h", "e", "m", "e">>, <<"s", "c", "h", "e", "m", "e">>>>,
    <<<<"s", "c", "s", "s">>, <<"s", "c", "s", "s">>>>,
    <<<<"s", "h", "e", "l", "l">>, <<"s", "h", "e", "l", "l">>>>,
    <<<<"s", "q", "l">>, <<"s", "q", "l">>>>,
    <<<<"s", "w", "i", "f", "t">>, <<"s", "w", "i", "f", "t">>>>,
    <<<<"t", "y", "p", "e", "s", "c", "r", "i", "p", "t">>, <<"t", "y", "p", "e", "s", "c", "r", "i", "p", "t">>>>,
    <<<<"t", "s">>, <<"t", "y", "p", "e", "s", "c", "r", "i", "p", "t">>>>,
    <<<<"v", "b">>, <<"v", "i", "s", "u", "a", "l", " ", "b", "a", "s", "i", "c">>>>,
    <<<<"v", "b", "n", "e", "t">>, <<"v", "i", "s", "u", "a", "l", " ", "b", "a", "s", "i", "c">>>>,
    <<<<"v", "e", "r", "i", "l", "o", "g">>, <<"v", "e", "r", "i", "l", "o", "g">>>>,
    <<<<"v", "h", "d", "l">>, <<"v", "h", "d", "l">>>>,
    <<<<"x", "m", "l">>, <<"x", "m", "l">>>>,
    <<<<"y", "a", "m", "l">>, <<"y", "a", "m", "l">>>>,
    <<<<"s", "h">>, <<"b", "a", "s", "h">>>>,
    <<<<"z", "s", "h">>, <<"b", "a", "s", "h">>>>,
    <<<<"c", "o", "n", "s", "o", "l", "e">>, <<"s", "h", "e", "l", "l">>>>,
    <<<<"t", "e", "r", "m", "i", "n", "a", "l">>, <<"s", "h", "e", "l", "l">>>>,
    <<<<"j", "s", "x">>, <<"j", "a", "v", "a", "s", "c", "r", "i", "p", "t">>>>,
    <<<<"t", "s", "x">>, <<"t", "y", "p", "e", "s", "c", "r", "i", "p", "t">>>>,
    <<<<"y", "m", "l">>, <<"y", "a", "m", "l">>>>,
    <<<<"p", "l", "a", "i", "n", "t", "e", "x", "t">>, <<"p", "l", "a", "i", "n", " ", "t", "e", "x", "t">>>>,
    <<<<"t", "e", "x", "t">>, <<"p", "l", "a", "i", "n", " ", "t", "e", "x", "t">>>>,
    <<<<"t", "x", "t">>, <<"p", "l", "a", "i", "n", " ", "t", "e", "x", "t">>>>
>>

LANGUAGE_KEYS == {LANGUAGE_PAIRS[i][1] : i \in DOMAIN LANGUAGE_PAIRS}

\* LANGUAGE_MAP[key] for a key of the table
LANGUAGE_MAP(key) ==
    LANGUAGE_PAIRS[CHOOSE i \in DOMAIN LANGUAGE_PAIRS : LANGUAGE_PAIRS[i][1] = key][2]

\* str.lower on the letters that occur in language tags
UpperLetters ==
    <<"A", "B", "C", "D", "E", "F", "G", "H", "I", "J", "K", "L", "M",
      "N", "O", "P", "Q", "R", "S", "T", "U", "V", "W", "X", "Y", "Z">>
LowerLetters ==
    <<"a", "b", "c", "d", "e", "f", "g", "h", "i", "j", "k", "l", "m",
      "n", "o", "p", "q", "r", "s", "t", "u", "v", "w", "x", "y", "z">>

LowerChar(c) ==
    IF \E i \in 1..26 : UpperLetters[i] = c
    THEN LowerLetters[CHOOSE i \in 1..26 : UpperLetters[i] = c]
    ELSE c

UpperChar(c) ==
    IF \E i \in 1..26 : LowerLetters[i] = c
    THEN UpperLetters[CHOOSE i \in 1..26 : LowerLetters[i] = c]
    ELSE c

lower(str) == [i \in 1..Len(str) |-> LowerChar(str[i])]
upper(str) == [i \in 1..Len(str) |-> UpperChar(str[i])]

PlainText == <<"p", "l", "a", "i", "n", " ", "t", "e", "x", "t">>

\* None where a string is optional: a value no string is equal to
NoString == <<"None">>

\* CodeManager._map_language
\* a lookup of the tag as it is written
_map_language_exact(language) ==
    IF language = NoString \/ language = <<>> THEN PlainText
    ELSE IF language \in LANGUAGE_KEYS THEN LANGUAGE_MAP(language)
    ELSE PlainText

_map_language(language) ==
    IF language = NoString \/ language = <<>> THEN PlainText
    ELSE LET language_lower == lower(language)
         IN IF language_lower \in LANGUAGE_KEYS THEN LANGUAGE_MAP(language_lower)
            ELSE PlainText

\* Code.__init__
CodeModel(code, language, caption) ==
    [block_type |-> "code", code |-> code, language |-> language, caption |-> caption]

\* dict.get(name) of the attributes: None when the attribute is absent
GetAttribute(attributes, name) ==
    IF name \in DOMAIN attributes THEN attributes[name] ELSE NoString

\* a or b of Python: a unless it is falsy
Or(a, b) == IF a = NoString \/ a = <<>> THEN b ELSE a

CodeManager_convert(elem) ==
    IF elem.t # "CodeBlock" THEN Raises("ValueError")
    ELSE Returns(<<CodeModel(elem.text,
                             _map_language(IF elem.classes # <<>> THEN elem.classes[1]
                                           ELSE NoString),
                             Or(GetAttribute(elem.attributes, "caption"),
                                GetAttribute(elem.attributes, "filename")))>>)

\* Code.to_dict
Code_to_dict(block) ==
    [object |-> "block", type |-> block.block_type,
     caption |-> IF block.caption = NoString \/ block.caption = <<>> THEN <<>>
                 ELSE <<InlineToDict(Text(block.caption, DefaultAnnotations, NoLink))>>,
     rich_text |-> <<InlineToDict(Text(block.code, DefaultAnnotations, NoLink))>>,
     language |-> block.language]

(***************************************************************************)
(* Python string operations on sequences of characters.                    *)
(***************************************************************************)
startswith(str, prefix) ==
    Len(str) >= Len(prefix) /\ SubSeq(str, 1, Len(prefix)) = prefix

endswith(str, suffix) ==
    Len(str) >= Len(suffix) /\ SubSeq(str, Len(str) - Len(suffix) + 1, Len(str)) = suffix

\* str[a:b] for 0 <= a, 0 <= b
Slice(str, a, b) ==
    IF a >= Min(b, Len(str)) THEN <<>> ELSE SubSeq(str, a + 1, Min(b, Len(str)))

\* str[a:]
SliceFrom(str, a) == Slice(str, a, Len(str))

\* str.find(sub, start): the least index at or after start where sub occurs, or -1
find(str, sub, start) ==
    LET at == {i \in start..(Len(str) - Len(sub)) : SubSeq(str, i + 1, i + Len(sub)) = sub}
    IN IF at = {} THEN -1 ELSE CHOOSE i \in at : \A j \in at : i <= j

\* str.rstrip() and str.strip()
RECURSIVE rstrip(_)
rstrip(str) ==
    IF str # <<>> /\ str[Len(str)] \in {" ", "\n"}
    THEN rstrip(SubSeq(str, 1, Len(str) - 1))
    ELSE str

strip(str) == rstrip(lstrip(str))

\* str.replace(old, new), old not empty
RECURSIVE replace(_, _, _)
replace(str, old, new) ==
    IF find(str, old, 0) < 0 THEN str
    ELSE Slice(str, 0, find(str, old, 0)) \o new
         \o replace(SliceFrom(str, find(str, old, 0) + Len(old)), old, new)

\* str.split(sep), sep not empty
RECURSIVE split(_, _)
split(str, sep) ==
    IF find(str, sep, 0) < 0 THEN <<str>>
    ELSE <<Slice(str, 0, find(str, sep, 0))>>
         \o split(SliceFrom(str, find(str, sep, 0) + Len(sep)), sep)

(***************************************************************************)
(* models/equation.py: Equation; managers/equation_manager.py              *)
(***************************************************************************)
BeginEquation == <<"\\", "b", "e", "g", "i", "n", "{", "e", "q", "u", "a", "t", "i", "o", "n", "}">>
EndEquation == <<"\\", "e", "n", "d", "{", "e", "q", "u", "a", "t", "i", "o", "n", "}">>
BeginAlign == <<"\\", "b", "e", "g", "i", "n", "{", "a", "l", "i", "g", "n", "}">>
EndAlign == <<"\\", "e", "n", "d", "{", "a", "l", "i", "g", "n", "}">>
BeginAligned == <<"\\", "b", "e", "g", "i", "n", "{", "a", "l", "i", "g", "n", "e", "d", "}">>
EndAligned == <<"\\", "e", "n", "d", "{", "a", "l", "i", "g", "n", "e", "d", "}">>
BeginGather == <<"\\", "b", "e", "g", "i", "n", "{", "g", "a", "t", "h", "e", "r", "}">>
EndGather == <<"\\", "e", "n", "d", "{", "g", "a", "t", "h", "e", "r", "}">>
LabelOpen == <<"\\", "l", "a", "b", "e", "l", "{">>
TagOpen == <<"\\", "t", "a", "g", "{">>
CloseBrace == <<"}">>
EqRef == <<"\\", "e", "q", "r", "e", "f">>
Ref == <<"\\", "r", "e", "f">>

\* a Math node with format DisplayMath
DisplayMath(text) == Node("Math", text, <<>>, NoUrl) @@ [format |-> "DisplayMath"]

\* the format of a Math node
MathFormat(elem) == IF "format" \in DOMAIN elem THEN elem.format ELSE "InlineMath"

\* expr without its enclosing environment, when it has both markers
StripWrapper(expr, begin, end) == strip(Slice(expr, Len(begin), Len(expr) - Len(end)))

\* the loop over parts[1:] of the label removal
RECURSIVE AfterLabels(_, _)
AfterLabels(parts, i) ==
    IF i > Len(parts) THEN <<>>
    ELSE (IF find(parts[i], CloseBrace, 0) >= 0
          THEN SliceFrom(parts[i], find(parts[i], CloseBrace, 0) + 1)
          ELSE <<>>)
         \o AfterLabels(parts, i + 1)

RemoveLabels(expr) ==
    IF find(expr, LabelOpen, 0) >= 0
    THEN split(expr, LabelOpen)[1] \o AfterLabels(split(expr, LabelOpen), 2)
    ELSE expr

Unwrap(expr) ==
    IF startswith(expr, BeginEquation) /\ endswith(expr, EndEquation)
    THEN StripWrapper(expr, BeginEquation, EndEquation)
    ELSE IF startswith(expr, BeginAlign) /\ endswith(expr, EndAlign)
    THEN StripWrapper(expr, BeginAlign, EndAlign)
    ELSE IF startswith(expr, BeginAligned) /\ endswith(expr, EndAligned)
    THEN StripWrapper(expr, BeginAligned, EndAligned)
    ELSE IF startswith(expr, BeginGather) /\ endswith(expr, EndGather)
    THEN StripWrapper(expr, BeginGather, EndGather)
    ELSE expr

\* Equation._sanitize_expression
_sanitize_expression(expr) == RemoveLabels(Unwrap(strip(expr)))

\* Equation.__init__
Equation(expression, equation_number) ==
    [block_type |-> "equation", expression |-> _sanitize_expression(expression),
     equation_number |-> equation_number]

\* Equation.to_dict
Equation_to_dict(block) ==
    [object |-> "block", type |-> block.block_type, expression |-> block.expression]

EquationManager_can_convert(elem) == elem.t = "Math" /\ MathFormat(elem) = "DisplayMath"

\* EquationManager._convert_latex_to_katex
_convert_latex_to_katex(expression) == replace(expression, EqRef, Ref)

\* the text sliced out after a marker was found at start: expression[start + skip:end]
NumberAt(expression, start, skip) ==
    Slice(expression, start + skip, find(expression, CloseBrace, start))

\* EquationManager._extract_equation_number
_extract_equation_number(expression) ==
    IF /\ find(expression, TagOpen, 0) >= 0
       /\ find(expression, CloseBrace, find(expression, TagOpen, 0))
              > find(expression, TagOpen, 0)
    THEN NumberAt(expression, find(expression, TagOpen, 0), 6)
    ELSE IF /\ find(expression, LabelOpen, 0) >= 0
            /\ find(expression, CloseBrace, find(expression, LabelOpen, 0))
                   > find(expression, LabelOpen, 0)
    THEN NumberAt(expression, find(expression, LabelOpen, 0), 7)
    ELSE NoString

EquationManager_convert(elem) ==
    IF ~EquationManager_can_convert(elem) THEN Raises("ValueError")
    ELSE Returns(<<Equation(_convert_latex_to_katex(elem.text),
                            _extract_equation_number(_convert_latex_to_katex(elem.text)))>>)

(***************************************************************************)
(* registry.py: ManagerRegistry; managers/registry_mixin.py: RegistryMixin *)
(***************************************************************************)
\* register_default_managers: the managers in registration order
DefaultManagers ==
    <<"QuoteManager", "HeadingManager", "CodeManager", "ListManager", "TextManager",
      "ParagraphManager">>

NoManager == "None"

QuoteManager_can_convert(elem) == elem.t = "BlockQuote"
HeadingManager_can_convert(elem) == elem.t = "Header"
CodeManager_can_convert(elem) == elem.t = "CodeBlock"

can_convert(manager, elem) ==
    CASE manager = "QuoteManager" -> QuoteManager_can_convert(elem)
      [] manager = "HeadingManager" -> HeadingManager_can_convert(elem)
      [] manager = "CodeManager" -> CodeManager_can_convert(elem)
      [] manager = "ListManager" -> ListManager_can_convert(elem)
      [] manager = "TextManager" -> TextManager_can_convert(elem)
      [] manager = "ParagraphManager" -> ParagraphManager_can_convert(elem)
      [] manager = "EquationManager" -> EquationManager_can_convert(elem)

\* a scan that keeps the last manager that accepts the element
FindFrom_last(managers, i, elem) ==
    LET accepting == {j \in i..Len(managers) : can_convert(managers[j], elem)}
    IN IF accepting = {} THEN NoManager
       ELSE managers[CHOOSE j \in accepting : \A k \in accepting : k <= j]

\* ManagerRegistry.find_manager: the first manager that accepts the element
RECURSIVE FindFrom(_, _, _)
FindFrom(managers, i, elem) ==
    IF i > Len(managers) THEN NoManager
    ELSE IF can_convert(managers[i], elem) THEN managers[i]
    ELSE FindFrom(managers, i + 1, elem)

ManagerRegistry_find_manager(managers, elem) == FindFrom(managers, 1, elem)

\* RegistryMixin.find_manager: through the shared registry, None while it is unset
RegistryMixin_find_manager(reg, elem) ==
    IF reg # <<>> THEN ManagerRegistry_find_manager(reg, elem) ELSE NoManager

\* TextManager.convert of a single element
TextManager_convert(elem) == _process_stream(<<elem>>, 1, DefaultAnnotations, <<>>, <<>>)

(***************************************************************************)
(* managers/quote_manager.py: QuoteManager.  cil is contentIsList, reg the *)
(* shared registry; each value carries the element after the call.         *)
(***************************************************************************)
Call(raised_, value, elem) == [raised |-> raised_, value |-> value, elem |-> elem]

\* hasattr(block, 'text_content'): Paragraph and Quote have it, List has not
HasTextContent(block) == "text_content" \in DOMAIN block

\* _add_converted_blocks_as_children for a list of blocks
_add_converted_blocks_as_children(quote, blocks) ==
    [quote EXCEPT !.children = @ \o blocks]

RECURSIVE QuoteManager_convert(_, _, _), convert_with_manager(_, _, _),
          QuoteChildrenFrom(_, _, _, _, _)

\* except (ValueError, TypeError): return []; any other exception escapes
CatchExpected(r) ==
    IF r.raised \in {"ValueError", "TypeError"} THEN Call("None", <<>>, r.elem) ELSE r

\* a manager's result for an element it leaves as it is
OnElem(r, elem) == Call(r.raised, r.value, elem)

\* manager.convert(elem) of the manager class named manager
ManagerConvert(manager, elem, cil, reg) ==
    CASE manager = "QuoteManager" -> QuoteManager_convert(elem, cil, reg)
      [] manager = "HeadingManager" -> OnElem(HeadingManager_convert(elem), elem)
      [] manager = "CodeManager" -> OnElem(CodeManager_convert(elem), elem)
      [] manager = "ListManager" -> ListManager_convert(elem)
      [] manager = "TextManager" -> Call("None", TextManager_convert(elem), elem)
      [] manager = "ParagraphManager" -> OnElem(ParagraphManager_convert(elem), elem)
      [] manager = "EquationManager" -> OnElem(EquationManager_convert(elem), elem)

\* manager.convert(elem) inside the try of convert_with_manager
ConvertBy(manager, elem, cil, reg) ==
    IF manager = NoManager THEN Call("None", <<>>, elem)
    ELSE CatchExpected(ManagerConvert(manager, elem, cil, reg))

\* RegistryMixin.convert_with_manager: [] when no manager is found or the
\* conversion raises ValueError or TypeError; any other exception escapes
convert_with_manager(elem, cil, reg) ==
    ConvertBy(RegistryMixin_find_manager(reg, elem), elem, cil, reg)

\* lines 108-115: the first converted block gives its text_content, or the
\* converted blocks become children; the value is the quote after the call
UseConverted(converted, quote) ==
    IF converted.raised # "None" THEN Call(converted.raised, quote, converted.elem)
    ELSE IF converted.value # <<>> /\ HasTextContent(converted.value[1])
    THEN Call("None",
              [quote EXCEPT !.text_content = @ \o converted.value[1].text_content],
              converted.elem)
    ELSE Call("None", _add_converted_blocks_as_children(quote, converted.value),
              converted.elem)

\* lines 98-104: the text extracted directly, or else the registry's conversion
TakeText(text_elements, elem, quote, cil, reg) ==
    IF text_elements # <<>>
    THEN Call("None", [quote EXCEPT !.text_content = @ \o text_elements], elem)
    ELSE UseConverted(convert_with_manager(elem, cil, reg), quote)

_process_first_element(elem, quote, cil, reg) ==
    TakeText(IF cil THEN create_text_elements(elem.content, DefaultAnnotations) ELSE <<>>,
             elem, quote, cil, reg)

\* lines 132-138: the converted blocks become children of the quote
AddConverted(converted, quote) ==
    IF converted.raised # "None" THEN Call(converted.raised, quote, converted.elem)
    ELSE Call("None", _add_converted_blocks_as_children(quote, converted.value),
              converted.elem)

_process_child_element(elem, quote, cil, reg) ==
    AddConverted(IF elem.t = "BlockQuote" THEN QuoteManager_convert(elem, cil, reg)
                 ELSE convert_with_manager(elem, cil, reg),
                 quote)

\* the loop of lines 70-71 after child i was processed with result r
ChildDone(r, content, i, cil, reg) ==
    IF r.raised # "None"
    THEN [raised |-> r.raised, value |-> r.value,
          content |-> [content EXCEPT ![i] = r.elem]]
    ELSE QuoteChildrenFrom([content EXCEPT ![i] = r.elem], i + 1, r.value, cil, reg)

\* the loop of lines 70-71 from child i on
QuoteChildrenFrom(content, i, quote, cil, reg) ==
    IF i > Len(content) THEN [raised |-> "None", value |-> quote, content |-> content]
    ELSE ChildDone(_process_child_element(content[i], quote, cil, reg), content, i, cil, reg)

\* lines 73-78: a quote left without text gets one empty Text
AfterChildren(rest, elem) ==
    IF rest.raised # "None"
    THEN Call(rest.raised, <<>>, [elem EXCEPT !.content = rest.content])
    ELSE IF rest.value.text_content = <<>>
    THEN Call("None",
              <<[rest.value EXCEPT !.text_content =
                    <<Text(<<>>, DefaultAnnotations, NoLink)>>]>>,
              [elem EXCEPT !.content = rest.content])
    ELSE Call("None", <<rest.value>>, [elem EXCEPT !.content = rest.content])

\* lines 69-71 once the first element was processed with result first
AfterFirst(first, elem, cil, reg) ==
    IF first.raised # "None"
    THEN Call(first.raised, <<>>, [elem EXCEPT !.content[1] = first.elem])
    ELSE AfterChildren(
             QuoteChildrenFrom([elem.content EXCEPT ![1] = first.elem], 2, first.value,
                               cil, reg),
             elem)

QuoteManager_convert(elem, cil, reg) ==
    IF elem.t # "BlockQuote" THEN Call("ValueError", <<>>, elem)
    ELSE IF elem.content = <<>> THEN Call("None", <<Quote(<<>>, <<>>)>>, elem)
    ELSE AfterFirst(_process_first_element(elem.content[1], Quote(<<>>, <<>>), cil, reg),
                    elem, cil, reg)

\* ManagerRegistry.register_manager: appended unless already registered
register_manager(managers, manager_class) ==
    IF \E i \in DOMAIN managers : managers[i] = manager_class THEN managers
    ELSE Append(managers, manager_class)

\* a conversion that returns nothing when no manager accepts the element
ConvertFound_quiet(manager, elem, cil, reg) ==
    IF manager = NoManager THEN Call("None", <<>>, elem)
    ELSE ManagerConvert(manager, elem, cil, reg)

\* ManagerRegistry.convert_element: ValueError when no manager accepts the element
ConvertFound(manager, elem, cil, reg) ==
    IF manager = NoManager THEN Call("ValueError", <<>>, elem)
    ELSE ManagerConvert(manager, elem, cil, reg)

ManagerRegistry_convert_element(managers, elem, cil, reg) ==
    ConvertFound(ManagerRegistry_find_manager(managers, elem), elem, cil, reg)

(***************************************************************************)
(* filter.py: NotionConfig, NotionFilter.  A document holds its top-level  *)
(* blocks and its metadata, a function from field names to inline content. *)
(***************************************************************************)
\* NotionConfig._set_defaults, the options the conversion reads
DefaultConfig == [include_metadata |-> TRUE, add_title_block |-> TRUE]

Doc(content, metadata) == [t |-> "Doc", content |-> content, metadata |-> metadata]

NoMetadata == [k \in {} |-> <<>>]

\* pf.stringify: the text of the Str nodes, one blank per Space
RECURSIVE stringify(_, _)
stringify(content, i) ==
    IF i > Len(content) THEN <<>>
    ELSE (IF content[i].t = "Str" THEN content[i].text
          ELSE IF content[i].t \in {"Space", "SoftBreak"} THEN <<" ">>
          ELSE stringify(content[i].content, 1))
         \o stringify(content, i + 1)

\* NotionFilter._extract_metadata: author becomes the list authors, every
\* other field keeps its name and is stringified
_extract_metadata(doc) ==
    [k \in {IF f = "author" THEN "authors" ELSE f : f \in DOMAIN doc.metadata} |->
        IF k = "authors" THEN <<stringify(doc.metadata["author"], 1)>>
        ELSE stringify(doc.metadata[k], 1)]

\* isinstance(block, Block)
IsBlockObject(block) == "block_type" \in DOMAIN block

\* block.to_dict() of a Block; a dict stands for the list holding it
BlockToDicts(block) ==
    IF IsList(block) THEN List_to_dict(block)
    ELSE IF block.block_type = "quote" THEN <<Quote_to_dict(block)>>
    ELSE IF block.block_type = "paragraph" THEN <<Paragraph_to_dict(block)>>
    ELSE IF block.block_type = "code" THEN <<Code_to_dict(block)>>
    ELSE IF block.block_type = "equation" THEN <<Equation_to_dict(block)>>
    ELSE <<Heading_to_dict(block)>>

\* a Python list object
PyList(items) == [class |-> "list", items |-> items]

\* obj.to_dict(): a list has no attribute to_dict
CallToDict(obj) ==
    IF "class" \in DOMAIN obj /\ obj.class = "list" THEN Raises("AttributeError")
    ELSE Returns(BlockToDicts(obj))

\* lines 187-190 of _serialize_blocks: the title block
TitleDicts(config_, metadata) ==
    IF config_.add_title_block /\ "title" \in DOMAIN metadata
    THEN CallToDict(PyList(convert_plain_text(metadata["title"], 1)))
    ELSE Returns(<<>>)

\* lines 192-210 of _serialize_blocks: each Block extends the output by its
\* dicts, any other object is passed over
RECURSIVE SerializeFrom(_, _)
SerializeFrom(blocks, i) ==
    IF i > Len(blocks) THEN <<>>
    ELSE (IF IsBlockObject(blocks[i]) THEN BlockToDicts(blocks[i]) ELSE <<>>)
         \o SerializeFrom(blocks, i + 1)

AfterTitle(title, blocks) ==
    IF title.raised # "None" THEN title
    ELSE Returns(title.value \o SerializeFrom(blocks, 1))

_serialize_blocks(config_, metadata, blocks) ==
    AfterTitle(TitleDicts(config_, metadata), blocks)

\* a loop that puts the blocks of each node in front of the earlier ones
AddBlocks_front(r, blocks) == IF r.raised = "None" THEN r.value \o blocks ELSE blocks

\* lines 118-127 of convert_doc: a node whose conversion raises is logged and
\* skipped, the blocks of any other node extend self.blocks
AddBlocks(r, blocks) == IF r.raised = "None" THEN blocks \o r.value ELSE blocks

RECURSIVE ConvertNodes(_, _, _, _, _)
NodeDone(r, content, i, blocks, cil, reg) ==
    ConvertNodes([content EXCEPT ![i] = r.elem], i + 1, AddBlocks(r, blocks), cil, reg)

ConvertNodes(content, i, blocks, cil, reg) ==
    IF i > Len(content) THEN [blocks |-> blocks, content |-> content]
    ELSE NodeDone(ManagerRegistry_convert_element(reg, content[i], cil, reg),
                  content, i, blocks, cil, reg)

\* lines 132-141 of convert_doc: the result, with the metadata when configured
DocResult(serialized, config_, metadata) ==
    IF serialized.raised # "None" THEN serialized
    ELSE IF config_.include_metadata /\ DOMAIN metadata # {}
    THEN Returns([children |-> serialized.value, metadata |-> metadata])
    ELSE Returns([children |-> serialized.value])

DocDone(done, doc, config_) ==
    OnElem(DocResult(_serialize_blocks(config_, _extract_metadata(doc), done.blocks),
                     config_, _extract_metadata(doc)),
           [doc EXCEPT !.content = done.content])

NotionFilter_convert_doc(doc, config_, cil, reg) ==
    DocDone(ConvertNodes(doc.content, 1, <<>>, cil, reg), doc, config_)

(***************************************************************************)
(* src/pandoc_notion/filter.py: Filter                                     *)
(***************************************************************************)
\* manager.to_dict(elem): convert, then to_dict of every block
ToDicts(r) == IF r.raised # "None" THEN r ELSE Call("None", SerializeFrom(r.value, 1), r.elem)

ManagerToDict(manager, elem, cil, reg) ==
    IF manager = "TextManager"
    THEN Call("None", RichText(MergeRun(TextManager_convert(elem)).result), elem)
    ELSE ToDicts(ManagerConvert(manager, elem, cil, reg))

\* the loop of Filter.to_notion_dict: a node no manager accepts and a node
\* whose to_dict raises add nothing
RECURSIVE DictNodes(_, _, _, _, _)
DictNodeDone(r, content, i, blocks, cil, reg) ==
    DictNodes([content EXCEPT ![i] = r.elem], i + 1, AddBlocks(r, blocks), cil, reg)

DictFound(manager, content, i, blocks, cil, reg) ==
    IF manager = NoManager THEN DictNodes(content, i + 1, blocks, cil, reg)
    ELSE DictNodeDone(ManagerToDict(manager, content[i], cil, reg), content, i, blocks, cil, reg)

DictNodes(content, i, blocks, cil, reg) ==
    IF i > Len(content) THEN [blocks |-> blocks, content |-> content]
    ELSE DictFound(ManagerRegistry_find_manager(reg, content[i]), content, i, blocks, cil, reg)

DictDone(done, doc) ==
    Call("None", [children |-> done.blocks], [doc EXCEPT !.content = done.content])

Filter_to_notion_dict(doc, cil, reg) ==
    DictDone(DictNodes(doc.content, 1, <<>>, cil, reg), doc)

(***************************************************************************)
(* The state.                                                              *)
(*   ast            the input node, owned by the caller (panflute objects  *)
(*                  are mutable and converters may write to them)          *)
(*   base           base_annotations given to the inline engine            *)
(*   contentIsList  whether isinstance(elem.content, list) holds for the   *)
(*                  AST library's content container                        *)
(*   registry       the manager list of the registry the caller holds      *)
(*                  (self.registry of a filter)                            *)
(*   shared         the manager list of the registry that                  *)
(*                  registry_mixin._registry points to: the one            *)
(*                  constructed last                                       *)
(*   visited        in pandoc-filter mode, the number of elements the      *)
(*                  walker has handed to main                              *)
(*   config         the options of the filter's NotionConfig               *)
(*   result         the value returned by the conversion                   *)
(*   wire           the serialized (dict) form                             *)
(*   raised         the exception that escaped, or "None"                  *)
(*   phase          "input", then "found", "converted", "merged",          *)
(*                  "remerged", "created", "walking", "serialized" or      *)
(*                  "failed"                                               *)
(***************************************************************************)
NoException == "None"

Para(content) == Block("Para", content)
Plain(content) == Block("Plain", content)

TypeOK ==
    /\ phase \in {"input", "found", "converted", "serialized", "failed", "merged", "remerged", "created", "walking"}
    /\ visited \in Nat
    /\ contentIsList \in BOOLEAN
    /\ raised \in {NoException, "AttributeError", "ValueError"}

\* the outcome r of a conversion becomes the state
Outcome(r) ==
    /\ result' = r.value
    /\ ast' = r.elem
    /\ raised' = r.raised
    /\ phase' = IF r.raised = NoException THEN "converted" ELSE "failed"

(***************************************************************************)
(* SpecText: the inline engine called on its own.                          *)
(***************************************************************************)
FormatLeaves == {Str(<<"a">>), Code(<<"c">>), InlineMath(<<"m">>)}
FormatKinds == {"Strong", "Emph"}
BaseAnnotations == {DefaultAnnotations, Annotations(TRUE, FALSE), Annotations(FALSE, TRUE)}

InitText ==
    /\ ast \in {Para(f) : f \in Forests(FormatLeaves, FormatKinds, MaxNodes)}
    /\ base \in BaseAnnotations
    /\ contentIsList = FALSE
    /\ registry = DefaultManagers
    /\ shared = registry
    /\ visited = 0
    /\ config = DefaultConfig
    /\ result = <<>>
    /\ wire = <<>>
    /\ raised = NoException
    /\ phase = "input"

\* TextManager.create_text_elements(elements, base_annotations)
CreateTextElements ==
    /\ phase = "input"
    /\ ast.t = "Para"
    /\ result' = create_text_elements(ast.content, base)
    /\ phase' = "converted"
    /\ UNCHANGED <<ast, base, contentIsList, registry, shared, visited, config, wire, raised>>

\* TextManager.merge_consecutive_elements, then to_dict of each element
MergeElements ==
    /\ phase = "converted"
    /\ ast.t = "Para"
    /\ LET m == MergeRun(result)
       IN /\ result' = m.texts
          /\ wire' = RichText(m.result)
    /\ phase' = "serialized"
    /\ UNCHANGED <<ast, base, contentIsList, registry, shared, visited, config, raised>>

NextText == CreateTextElements \/ MergeElements

SpecText == InitText /\ [][NextText]_vars


(***************************************************************************)
(* Reading the source tokens and the emitted elements character by         *)
(* character, each character with the flags and the link it carries.       *)
(***************************************************************************)
Context(bold, italic, strikethrough, link) ==
    [bold |-> bold, italic |-> italic, strikethrough |-> strikethrough, link |-> link]

Flagged(text, ctx) ==
    [i \in 1..Len(text) |->
        [ch |-> text[i], bold |-> ctx.bold, italic |-> ctx.italic,
         strikethrough |-> ctx.strikethrough, link |-> ctx.link]]

LeafText(elem) ==
    CASE elem.t \in {"Str", "Code", "Math"} -> elem.text
      [] elem.t = "Space" -> <<" ">>
      [] elem.t \in {"SoftBreak", "LineBreak"} -> <<"\n">>
      [] OTHER -> <<>>

\* the leaf characters of a forest in document order: Strong, Emph and Strikeout
\* set their flag, Link sets the link
RECURSIVE SourceChars(_, _, _)
SourceChars(elements, i, ctx) ==
    IF i > Len(elements) THEN <<>>
    ELSE LET elem == elements[i]
             here == IF elem.content = <<>>
                     THEN Flagged(LeafText(elem), ctx)
                     ELSE SourceChars(elem.content, 1,
                              Context(ctx.bold \/ elem.t = "Strong",
                                      ctx.italic \/ elem.t = "Emph",
                                      ctx.strikethrough \/ elem.t = "Strikeout",
                                      IF elem.t = "Link" THEN elem.url ELSE ctx.link))
         IN here \o SourceChars(elements, i + 1, ctx)

RECURSIVE EmittedChars(_, _)
EmittedChars(elements, i) ==
    IF i > Len(elements) THEN <<>>
    ELSE Flagged(elements[i].content,
                 Context(elements[i].annotations.bold, elements[i].annotations.italic,
                         elements[i].annotations.strikethrough, elements[i].link))
         \o EmittedChars(elements, i + 1)

\* a sequence of flagged characters restricted to some of its fields
Only(chars, fields) == [i \in 1..Len(chars) |-> [f \in fields |-> chars[i][f]]]

\* the node types of a forest
RECURSIVE TypesIn(_, _)
TypesIn(elements, i) ==
    IF i > Len(elements) THEN {}
    ELSE {elements[i].t} \cup TypesIn(elements[i].content, 1) \cup TypesIn(elements, i + 1)

BaseContext == Context(base.bold, base.italic, base.strikethrough, NoLink)

StrA == Str(<<"a">>)
BoldItalicBold == <<Inline("Strong", <<StrA, Inline("Emph", <<StrA>>), StrA>>)>>

\* C7: every emitted element is bold exactly when the base is bold or its source
\* token lies inside a Strong node, and italic exactly when the base is italic or
\* it lies inside an Emph node; Strong[bold, Emph[italic], bold] gives the three
\* text runs (bold), (bold, italic), (bold).
C7_FlagsFollowNesting ==
    (phase = "converted") =>
        /\ Only(EmittedChars(result, 1), {"ch", "bold", "italic"})
               = Only(SourceChars(ast.content, 1, BaseContext), {"ch", "bold", "italic"})
        /\ (ast.content = BoldItalicBold /\ base = DefaultAnnotations) =>
               result = << Text(<<"a">>, Annotations(TRUE, FALSE), NoLink),
                           Text(<<"a">>, Annotations(TRUE, TRUE), NoLink),
                           Text(<<"a">>, Annotations(TRUE, FALSE), NoLink) >>

C7_Witness ==
    /\ phase = "converted"
    /\ ast.content = BoldItalicBold
    /\ base = DefaultAnnotations
    /\ Len(result) = 3


(***************************************************************************)
(* SpecParagraph: ParagraphManager.to_dict, in its two steps.              *)
(***************************************************************************)
InlineLeaves == {Str(<<"a">>), Space, Code(<<"c">>), Image}
InlineKinds == {"Strong", "Emph", "Strikeout", "Link"}

InitParagraph ==
    /\ ast \in {Para(f) : f \in Forests(InlineLeaves, InlineKinds, MaxInlineNodes)}
    /\ base = DefaultAnnotations
    /\ contentIsList = FALSE
    /\ registry = DefaultManagers
    /\ shared = registry
    /\ visited = 0
    /\ config = DefaultConfig
    /\ result = <<>>
    /\ wire = <<>>
    /\ raised = NoException
    /\ phase = "input"

\* paragraphs = cls.convert(elem)
ConvertParagraph ==
    /\ phase = "input"
    /\ ast.t = "Para"
    /\ LET r == ParagraphManager_convert(ast)
       IN /\ result' = r.value
          /\ raised' = r.raised
          /\ phase' = IF r.raised = NoException THEN "converted" ELSE "failed"
    /\ UNCHANGED <<ast, base, contentIsList, registry, shared, visited, config, wire>>

\* [paragraph.to_dict() for paragraph in paragraphs]; to_dict merges the runs of
\* paragraph.text_content in place
SerializeParagraph ==
    /\ phase = "converted"
    /\ ast.t = "Para"
    /\ wire' = [i \in 1..Len(result) |-> Paragraph_to_dict(result[i])]
    /\ result' = [i \in 1..Len(result) |->
                     [result[i] EXCEPT !.text_content = MergeRun(result[i].text_content).texts]]
    /\ phase' = "serialized"
    /\ UNCHANGED <<ast, base, contentIsList, registry, shared, visited, config, raised>>

NextParagraph == ConvertParagraph \/ SerializeParagraph

SpecParagraph == InitParagraph /\ [][NextParagraph]_vars

\* C8: a strikeout node is a formatting token: the text of its children is
\* emitted with strikethrough set and every other flag inherited.
C8_StrikeoutFormats ==
    (/\ phase = "converted"
     /\ TypesIn(ast.content, 1) \subseteq {"Str", "Space", "Strong", "Emph", "Strikeout"}) =>
        Only(EmittedChars(result[1].text_content, 1),
             {"ch", "bold", "italic", "strikethrough"})
        = Only(SourceChars(ast.content, 1, BaseContext),
               {"ch", "bold", "italic", "strikethrough"})

\* C9: the runs emitted for a link node all carry its URL, and their joined
\* content is the joined text of all the link's children, spaces and the text
\* inside nested formatting nodes included.
C9_LinkKeepsText ==
    (/\ phase = "converted"
     /\ TypesIn(ast.content, 1) \subseteq {"Str", "Space", "Strong", "Emph", "Link"}) =>
        Only(EmittedChars(result[1].text_content, 1), {"ch", "link"})
        = Only(SourceChars(ast.content, 1, BaseContext), {"ch", "link"})

\* C10: converting a paragraph never raises because of an unrecognized inline
\* node; a paragraph of unrecognized nodes only converts to one paragraph block
\* with no text.
C10_UnrecognizedDropped ==
    (/\ phase # "input"
     /\ TypesIn(ast.content, 1) \subseteq {"Str", "Space", "Code", "Image"}) =>
        /\ raised = NoException
        /\ (TypesIn(ast.content, 1) = {"Image"}) => result = <<Paragraph(<<>>)>>


(***************************************************************************)
(* SpecList: ListManager.to_dict, in its two steps.                        *)
(***************************************************************************)
ListItemNode(content) == Block("ListItem", content)

TickA == <<Str(<<OpenBox>>), Space, Str(<<"a">>)>>
CrossA == <<Str(<<CheckedBox>>), Space, Str(<<"a">>)>>
TickAB == <<Str(<<OpenBox, "a">>), Space, Str(<<"b">>)>>

\* the block that holds an item's text: Plain in a tight list, Para in a loose one
ItemTextBlocks ==
    {Plain(<<StrA>>), Plain(TickA), Plain(CrossA), Plain(TickAB), Para(TickA)}

\* the list nodes with n items in all, nested items included; ItemSeqTable(n)[k]
\* holds the item sequences of k items, for k in 1..n
ListKinds == {"BulletList", "OrderedList"}

ItemsN(table, n) ==
    IF n = 1 THEN {ListItemNode(<<tb>>) : tb \in ItemTextBlocks}
    ELSE {ListItemNode(<<tb, Block(k, items)>>) :
              tb \in ItemTextBlocks, k \in ListKinds, items \in table[n - 1]}

RECURSIVE ItemSeqTable(_)
ItemSeqTable(n) ==
    IF n = 0 THEN <<>>
    ELSE LET table == ItemSeqTable(n - 1)
         IN Append(table,
                   {<<it>> : it \in ItemsN(table, n)}
                   \cup UNION {{<<it>> \o rest : it \in ItemsN(table, k), rest \in table[n - k]} :
                                  k \in 1..(n - 1)})

\* ast is a list node of n items whose first item holds m of them
IsListOf(node, n, m) ==
    LET table == ItemSeqTable(n - 1)
    IN \E kind \in ListKinds, tb \in ItemTextBlocks :
       \E nested_kind \in IF m = 1 THEN {kind} ELSE ListKinds :
       \E nested \in IF m = 1 THEN {<<>>} ELSE table[m - 1] :
       \E rest \in IF m = n THEN {<<>>} ELSE table[n - m] :
           node = Block(kind,
                        <<ListItemNode(IF m = 1 THEN <<tb>>
                                       ELSE <<tb, Block(nested_kind, nested)>>)>> \o rest)

InitList ==
    /\ \E n \in 1..MaxListItems : \E m \in 1..n : IsListOf(ast, n, m)
    /\ base = DefaultAnnotations
    /\ contentIsList = FALSE
    /\ registry = DefaultManagers
    /\ shared = registry
    /\ visited = 0
    /\ config = DefaultConfig
    /\ result = <<>>
    /\ wire = <<>>
    /\ raised = NoException
    /\ phase = "input"

\* list_objs = cls.convert(elem)
ConvertList ==
    /\ phase = "input"
    /\ ListManager_can_convert(ast)
    /\ Outcome(ListManager_convert(ast))
    /\ UNCHANGED <<base, contentIsList, registry, shared, visited, config, wire>>

\* return list_objs[0].to_dict()
SerializeList ==
    /\ phase = "converted"
    /\ ListManager_can_convert(ast)
    /\ wire' = List_to_dict(result[1])
    /\ result' = <<ListAfterToDict(result[1])>>
    /\ phase' = "serialized"
    /\ UNCHANGED <<ast, base, contentIsList, registry, shared, visited, config, raised>>

NextList == ConvertList \/ SerializeList

SpecList == InitList /\ [][NextList]_vars


(***************************************************************************)
(* Reading lists: the text of elements, the items below an item.           *)
(***************************************************************************)
RECURSIVE JoinContent(_, _)
JoinContent(elements, i) ==
    IF i > Len(elements) THEN <<>>
    ELSE elements[i].content \o JoinContent(elements, i + 1)

RECURSIVE JoinPlainText(_, _)
JoinPlainText(rich_text, i) ==
    IF i > Len(rich_text) THEN <<>>
    ELSE rich_text[i].plain_text \o JoinPlainText(rich_text, i + 1)

\* the items of all the child lists of an item, in order
RECURSIVE ItemsBelow(_, _)
ItemsBelow(children, i) ==
    IF i > Len(children) THEN <<>>
    ELSE children[i].items \o ItemsBelow(children, i + 1)

\* blocks are the wire blocks of items: one block per item, in order, the items
\* below an item inside its children array and nowhere else
RECURSIVE ItemsMirrored(_, _)
ItemsMirrored(items, blocks) ==
    /\ Len(blocks) = Len(items)
    /\ \A i \in 1..Len(items) :
        LET below == ItemsBelow(items[i].children, 1)
            b == blocks[i]
        IN /\ b.object = "block"
           /\ b.type = CASE items[i].item_type = "todo" -> "to_do"
                         [] items[i].item_type = "numbered" -> "numbered_list_item"
                         [] OTHER -> "bulleted_list_item"
           /\ JoinPlainText(b.rich_text, 1) = JoinContent(items[i].text_content, 1)
           /\ IF below = <<>>
              THEN "children" \notin DOMAIN b /\ "has_children" \notin DOMAIN b
              ELSE /\ "children" \in DOMAIN b /\ "has_children" \in DOMAIN b
                   /\ b.has_children = TRUE
                   /\ ItemsMirrored(below, b.children)

\* C5: serializing a list collection of N items gives N top-level wire blocks,
\* one per item in item order; nested items appear only in their parent's
\* children array, with has_children set, at every depth.
C5_ListFlattening == [][SerializeList => ItemsMirrored(result[1].items, wire')]_vars

C5_Witness ==
    /\ phase = "serialized"
    /\ Len(wire) = 2
    /\ "children" \in DOMAIN wire[1]
    /\ Len(wire[1].children) = 1
    /\ wire[1].has_children = TRUE

\* the text block of an item node, and what the claims expect of the item
ItemTextBlock(item_node) == item_node.content[1]

ItemSourceText(item_node) ==
    Only(SourceChars(ItemTextBlock(item_node).content, 1, BaseContext), {"ch"})

NestedListNodes(item_node) ==
    SelectSeq(item_node.content, LAMBDA c : c.t \in {"BulletList", "OrderedList"})

ExpectedKind(item_node, list_node) ==
    LET text == ItemSourceText(item_node)
    IN IF text # <<>> /\ text[1].ch = OpenBox THEN [item_type |-> "todo", checked |-> FALSE]
       ELSE IF text # <<>> /\ text[1].ch = CheckedBox
       THEN [item_type |-> "todo", checked |-> TRUE]
       ELSE [item_type |-> IF list_node.t = "OrderedList" THEN "numbered" ELSE "bulleted",
             checked |-> FALSE]

\* every item of list_obj has the kind its node in list_node calls for, at every depth
RECURSIVE KindsFollowGlyph(_, _)
KindsFollowGlyph(list_node, list_obj) ==
    /\ Len(list_obj.items) = Len(list_node.content)
    /\ \A i \in 1..Len(list_node.content) :
        LET item_node == list_node.content[i]
            item == list_obj.items[i]
            nested == NestedListNodes(item_node)
        IN /\ [item_type |-> item.item_type, checked |-> item.checked]
                 = ExpectedKind(item_node, list_node)
           /\ Len(item.children) = Len(nested)
           /\ \A j \in 1..Len(nested) : KindsFollowGlyph(nested[j], item.children[j])

\* the wire type of every item is that of its kind; exactly the to_do blocks
\* carry a checked field
RECURSIVE WireKinds(_, _)
WireKinds(items, blocks) ==
    /\ Len(blocks) = Len(items)
    /\ \A i \in 1..Len(items) :
        /\ blocks[i].type = CASE items[i].item_type = "todo" -> "to_do"
                              [] items[i].item_type = "numbered" -> "numbered_list_item"
                              [] OTHER -> "bulleted_list_item"
        /\ ("checked" \in DOMAIN blocks[i]) <=> (blocks[i].type = "to_do")
        /\ (blocks[i].type = "to_do") => (blocks[i].checked = items[i].checked)
        /\ ItemsBelow(items[i].children, 1) # <<>> =>
               WireKinds(ItemsBelow(items[i].children, 1), blocks[i].children)

\* C3: at every depth an item whose first text begins with the open-box glyph is
\* a todo with checked false, with the checked-box glyph a todo with checked true,
\* otherwise it has the kind of its list; the wire types are to_do,
\* bulleted_list_item and numbered_list_item, and exactly the to_do blocks carry
\* a checked field.
C3_ItemKinds ==
    [][/\ ConvertList => KindsFollowGlyph(ast, result'[1])
       /\ SerializeList => WireKinds(result[1].items, wire')]_vars

\* the original text without the leading glyph and one space after it
StripGlyphAndOneSpace(text) ==
    LET rest == Tail(text)
    IN IF rest # <<>> /\ rest[1].ch = " " THEN Tail(rest) ELSE rest

RECURSIVE TodoTextKept(_, _)
TodoTextKept(list_node, list_obj) ==
    \A i \in 1..Len(list_node.content) :
        LET item_node == list_node.content[i]
            item == list_obj.items[i]
            nested == NestedListNodes(item_node)
        IN /\ item.item_type = "todo" =>
                  Only(EmittedChars(item.text_content, 1), {"ch"})
                  = StripGlyphAndOneSpace(ItemSourceText(item_node))
           /\ \A j \in 1..Len(nested) : TodoTextKept(nested[j], item.children[j])

\* C4: the rendered text of an item detected as a todo is its original text with
\* only the leading glyph and one following space removed.
C4_OnlyGlyphStripped == [][ConvertList => TodoTextKept(ast, result'[1])]_vars

\* every item's runs are the inline conversion of the content of its text block
RECURSIVE ItemTextsConverted(_, _)
ItemTextsConverted(list_node, list_obj) ==
    \A i \in 1..Len(list_node.content) :
        LET item_node == list_node.content[i]
            item == list_obj.items[i]
            nested == NestedListNodes(item_node)
        IN /\ item.text_content
                 = create_text_elements(ItemTextBlock(item_node).content, DefaultAnnotations)
           /\ \A j \in 1..Len(nested) : ItemTextsConverted(nested[j], item.children[j])

RECURSIVE NoEmptyRichText(_)
NoEmptyRichText(blocks) ==
    \A i \in 1..Len(blocks) :
        /\ blocks[i].rich_text # <<>>
        /\ "children" \in DOMAIN blocks[i] => NoEmptyRichText(blocks[i].children)

\* C6: the rich text of every item is the inline conversion of the item's own
\* text, held in a Plain node or in a Para node; an item with text never
\* serializes with an empty rich_text.
C6_ItemTextConverted ==
    /\ (phase = "converted") => ItemTextsConverted(ast, result[1])
    /\ (phase = "serialized") => NoEmptyRichText(wire)


(***************************************************************************)
(* SpecQuote: QuoteManager.to_dict, in its two steps.                      *)
(***************************************************************************)
BlockQuote(content) == Block("BlockQuote", content)

\* the blocks found inside a blockquote: paragraphs (one of them holding only a
\* node with no rule), a tight list and an empty blockquote
QuoteLeaves ==
    {Para(<<StrA>>),
     Para(<<StrA, Space, Inline("Strong", <<Str(<<"b">>)>>)>>),
     Para(<<Image>>),
     Block("BulletList", <<ListItemNode(<<Plain(TickA)>>)>>),
     BlockQuote(<<>>)}

InitQuote ==
    /\ ast \in {BlockQuote(f) : f \in Forests(QuoteLeaves, {"BlockQuote"}, MaxQuoteBlocks)}
    /\ base = DefaultAnnotations
    /\ contentIsList \in BOOLEAN
    /\ registry = DefaultManagers
    /\ shared = registry
    /\ visited = 0
    /\ config = DefaultConfig
    /\ result = <<>>
    /\ wire = <<>>
    /\ raised = NoException
    /\ phase = "input"

\* quotes = cls.convert(elem)
ConvertQuote ==
    /\ phase = "input"
    /\ QuoteManager_can_convert(ast)
    /\ Outcome(QuoteManager_convert(ast, contentIsList, shared))
    /\ UNCHANGED <<base, contentIsList, registry, shared, visited, config, wire>>

\* [quote.to_dict() for quote in quotes]
SerializeQuote ==
    /\ phase = "converted"
    /\ QuoteManager_can_convert(ast)
    /\ wire' = [i \in 1..Len(result) |-> Quote_to_dict(result[i])]
    /\ result' = [i \in 1..Len(result) |-> BlockAfterToDict(result[i])]
    /\ phase' = "serialized"
    /\ UNCHANGED <<ast, base, contentIsList, registry, shared, visited, config, raised>>

NextQuote == ConvertQuote \/ SerializeQuote

SpecQuote == InitQuote /\ [][NextQuote]_vars


(***************************************************************************)
(* Reading a quote conversion against its source.                          *)
(***************************************************************************)
AllParagraphs(content) == \A i \in 1..Len(content) : content[i].t = "Para"

\* the paragraph block a paragraph converts to when its inlines are converted
ConvertedParagraph(para) == Paragraph(create_text_elements(para.content, DefaultAnnotations))

\* C1: QuoteManager.convert on a blockquote with N>1 paragraph children returns
\* exactly one quote block whose rich text is the inline conversion of
\* paragraph 1 and whose children are the converted paragraphs 2..N in source
\* order.
C1_QuoteOfParagraphs ==
    (/\ phase \in {"converted", "failed"}
     /\ Len(ast.content) > 1
     /\ AllParagraphs(ast.content))
    => /\ raised = NoException
       /\ Len(result) = 1
       /\ result[1].block_type = "quote"
       /\ result[1].text_content
              = create_text_elements(ast.content[1].content, DefaultAnnotations)
       /\ result[1].children
              = [i \in 1..(Len(ast.content) - 1) |-> ConvertedParagraph(ast.content[i + 1])]

\* C2: for every blockquote node, one with no children included,
\* QuoteManager.convert followed by Quote.to_dict yields exactly one quote block
\* whose rich_text is never an empty array; for an empty blockquote rich_text
\* is exactly one text run with empty content.
C2_QuoteRichTextNeverEmpty ==
    phase = "serialized"
    => /\ Len(wire) = 1
       /\ wire[1].type = "quote"
       /\ wire[1].rich_text # <<>>
       /\ ast.content = <<>>
          => /\ Len(wire[1].rich_text) = 1
             /\ wire[1].rich_text[1].type = "text"
             /\ wire[1].rich_text[1].plain_text = <<>>


(***************************************************************************)
(* SpecRegistry: a ManagerRegistry, its registrations and its lookups.     *)
(***************************************************************************)
AllManagers ==
    {"QuoteManager", "HeadingManager", "CodeManager", "ListManager", "TextManager",
     "ParagraphManager", "EquationManager"}

\* one node of each kind the managers tell apart, and two kinds none accepts
RegistryNodes ==
    {BlockQuote(<<Para(<<StrA>>)>>),
     Header(2, <<StrA>>),
     CodeBlock(<<"x">>, <<<<"p", "y">>>>, NoAttributes),
     Block("BulletList", <<ListItemNode(<<Plain(<<StrA>>)>>)>>),
     Block("OrderedList", <<ListItemNode(<<Plain(<<StrA>>)>>)>>),
     Para(<<StrA>>),
     Para(<<Image>>),
     Plain(<<StrA>>),
     StrA,
     Inline("Strong", <<StrA>>),
     InlineMath(<<"m">>),
     DisplayMath(<<"m">>),
     Image,
     Block("HorizontalRule", <<>>)}

\* ManagerRegistry(): the default managers; ManagerRegistry([m]): the given one
InitRegistry ==
    /\ ast \in RegistryNodes
    /\ base = DefaultAnnotations
    /\ contentIsList \in BOOLEAN
    /\ registry \in {DefaultManagers} \cup {<<m>> : m \in AllManagers}
    /\ shared = registry
    /\ visited = 0
    /\ config = DefaultConfig
    /\ result = <<>>
    /\ wire = <<>>
    /\ raised = NoException
    /\ phase = "input"

\* registry.register_manager(manager_class)
RegisterManager ==
    /\ phase = "input"
    /\ Len(registry) < MaxManagers \/ registry = DefaultManagers
    /\ \E manager_class \in AllManagers :
           /\ registry' = register_manager(registry, manager_class)
           /\ shared' = register_manager(registry, manager_class)
    /\ UNCHANGED <<ast, base, contentIsList, visited, config, result, wire, raised, phase>>

\* registry.find_manager(elem)
FindManager ==
    /\ phase = "input"
    /\ result' = ManagerRegistry_find_manager(registry, ast)
    /\ phase' = "found"
    /\ UNCHANGED <<ast, base, contentIsList, registry, shared, visited, config, wire, raised>>

\* registry.convert_element(elem)
ConvertElement ==
    /\ phase = "input"
    /\ Outcome(ManagerRegistry_convert_element(registry, ast, contentIsList, shared))
    /\ UNCHANGED <<base, contentIsList, registry, shared, visited, config, wire>>

NextRegistry == RegisterManager \/ FindManager \/ ConvertElement

SpecRegistry == InitRegistry /\ [][NextRegistry]_vars

\* the positions of the registry whose manager accepts the node
Accepting(managers, elem) == {i \in DOMAIN managers : can_convert(managers[i], elem)}

IndexOf(managers, manager) == CHOOSE i \in DOMAIN managers : managers[i] = manager

SpecializedManager(elem) ==
    CASE elem.t = "BlockQuote" -> "QuoteManager"
      [] elem.t = "Header" -> "HeadingManager"
      [] elem.t = "CodeBlock" -> "CodeManager"
      [] elem.t \in {"BulletList", "OrderedList"} -> "ListManager"
      [] OTHER -> NoManager

\* C11: find_manager returns the earliest-registered manager whose can_convert
\* accepts the node, and None when no registered manager accepts it; in the
\* default registry Quote, Heading, Code and List come before Text and
\* Paragraph, so a blockquote, header, code block or list node resolves to its
\* specialized manager.
C11_FirstMatchWins ==
    phase = "found"
    => /\ Accepting(registry, ast) = {} => result = NoManager
       /\ Accepting(registry, ast) # {}
          => \E i \in Accepting(registry, ast) :
                 /\ result = registry[i]
                 /\ \A j \in Accepting(registry, ast) : i <= j
       /\ (/\ Len(registry) >= Len(DefaultManagers)
           /\ SubSeq(registry, 1, Len(DefaultManagers)) = DefaultManagers)
          => /\ \A s \in {"QuoteManager", "HeadingManager", "CodeManager", "ListManager"} :
                \A g \in {"TextManager", "ParagraphManager"} :
                    IndexOf(registry, s) < IndexOf(registry, g)
             /\ SpecializedManager(ast) # NoManager => result = SpecializedManager(ast)

\* a display-math node looked up where TextManager is registered before
\* EquationManager: both accept it and the earlier one is returned
C11_Witness ==
    /\ phase = "found"
    /\ Cardinality(Accepting(registry, ast)) = 2
    /\ result = "TextManager"
    /\ registry[Len(registry)] = "EquationManager"


DocBlocks ==
    {Para(<<StrA>>),
     Para(<<Image>>),
     Header(4, <<StrA>>),
     CodeBlock(<<"x">>, <<<<"p", "y">>>>, NoAttributes),
     Block("BulletList", <<ListItemNode(<<Plain(TickA)>>), ListItemNode(<<Plain(<<StrA>>)>>)>>),
     BlockQuote(<<Para(<<StrA>>)>>),
     Block("HorizontalRule", <<>>)}

TitleAB == <<StrA, Space, Str(<<"b">>)>>

\* no metadata block, a title, or an author only
DocMetadata == {NoMetadata, [title |-> TitleAB], [author |-> <<StrA>>]}

Configs == [include_metadata : BOOLEAN, add_title_block : BOOLEAN]

Docs ==
    {Doc(content, metadata) :
        content \in UNION {[1..n -> DocBlocks] : n \in 0..MaxDocBlocks},
        metadata \in DocMetadata}

InitDoc ==
    /\ ast \in Docs
    /\ base = DefaultAnnotations
    /\ contentIsList \in BOOLEAN
    /\ registry = DefaultManagers
    /\ shared = registry
    /\ visited = 0
    /\ config \in Configs
    /\ result = <<>>
    /\ wire = <<>>
    /\ raised = NoException
    /\ phase = "input"

\* NotionFilter(config).convert_doc(doc)
ConvertDoc ==
    /\ phase = "input"
    /\ Outcome(NotionFilter_convert_doc(ast, config, contentIsList, registry))
    /\ UNCHANGED <<base, contentIsList, registry, shared, visited, config, wire>>

\* Filter().to_notion_dict(doc): every exception is caught in the loop
ToNotionDict ==
    /\ phase = "input"
    /\ result' = Filter_to_notion_dict(ast, contentIsList, registry).value
    /\ wire' = Filter_to_notion_dict(ast, contentIsList, registry).value.children
    /\ ast' = Filter_to_notion_dict(ast, contentIsList, registry).elem
    /\ phase' = "serialized"
    /\ UNCHANGED <<base, contentIsList, registry, shared, visited, config, raised>>

NextDoc == ConvertDoc \/ ToNotionDict

SpecDoc == InitDoc /\ [][NextDoc]_vars

\* the wire blocks of one top-level node converted on its own: none when the
\* conversion raises
NodeWire(r) == IF r.raised = NoException THEN SerializeFrom(r.value, 1) ELSE <<>>

NodeRaises(node, cil, reg) ==
    ManagerRegistry_convert_element(reg, node, cil, reg).raised # NoException

RECURSIVE ExpectedChildren(_, _, _, _)
ExpectedChildren(content, i, cil, reg) ==
    IF i > Len(content) THEN <<>>
    ELSE NodeWire(ManagerRegistry_convert_element(reg, content[i], cil, reg))
         \o ExpectedChildren(content, i + 1, cil, reg)

\* the number of wire blocks a node gives: one per item for a list, one for any
\* other node that converts, none for a node whose conversion raises
RECURSIVE ExpectedCount(_, _, _, _)
ExpectedCount(content, i, cil, reg) ==
    IF i > Len(content) THEN 0
    ELSE (IF NodeRaises(content[i], cil, reg) THEN 0
          ELSE IF content[i].t \in {"BulletList", "OrderedList"} THEN Len(content[i].content)
          ELSE 1)
         + ExpectedCount(content, i + 1, cil, reg)

WireTypes(children) == [i \in 1..Len(children) |-> children[i].type]

\* the children array is expected, possibly after one leading block
EndsWith(children, expected) ==
    /\ Len(children) - Len(expected) \in {0, 1}
    /\ SubSeq(children, Len(children) - Len(expected) + 1, Len(children)) = expected

\* C13: when the conversion of a top-level node raises (no manager matching it
\* included), convert_doc still returns a result, the node contributes no
\* blocks and every other node is converted.
C13_RaisingNodesSkipped ==
    [][(/\ phase' # "serialized"
        /\ ConvertDoc
        /\ \E i \in DOMAIN ast.content : NodeRaises(ast.content[i], contentIsList, registry))
       => /\ raised' = NoException
          /\ EndsWith(result'.children,
                      ExpectedChildren(ast.content, 1, contentIsList, registry))
      ]_vars

\* C14: the children array returned by document conversion is the
\* concatenation, in document order, of the wire blocks of each successfully
\* converted top-level node, a list node giving one block per item at its place.
C14_ChildrenInDocumentOrder ==
    [][((phase' = "converted" /\ ConvertDoc) \/ (phase' = "serialized" /\ ToNotionDict))
       => /\ result'.children = ExpectedChildren(ast.content, 1, contentIsList, registry)
          /\ Len(result'.children) = ExpectedCount(ast.content, 1, contentIsList, registry)
      ]_vars

\* a paragraph, a list of two items and a heading came out as four blocks in order
C14_Witness ==
    /\ phase = "converted"
    /\ raised = NoException
    /\ [i \in 1..Len(ast.content) |-> ast.content[i].t] = <<"Para", "BulletList", "Header">>
    /\ WireTypes(result.children)
           = <<"paragraph", "to_do", "bulleted_list_item", "heading_3">>

\* C15: with add_title_block enabled and a title in the metadata, convert_doc
\* returns children whose first element is a level-1 heading carrying the
\* title text, followed by the converted document blocks.
C15_TitleHeadingFirst ==
    [][(/\ phase' # "serialized"
        /\ ConvertDoc
        /\ config.add_title_block
        /\ "title" \in DOMAIN ast.metadata)
       => /\ raised' = NoException
          /\ result'.children # <<>>
          /\ result'.children[1].type = "heading_1"
          /\ result'.children[1].rich_text
                 = RichText(<<Text(stringify(ast.metadata["title"], 1),
                                   DefaultAnnotations, NoLink)>>)
          /\ Tail(result'.children)
                 = ExpectedChildren(ast.content, 1, contentIsList, registry)
      ]_vars

\* C16: converting a document with no top-level nodes returns a children list
\* that is not empty: it holds at least an empty paragraph block.
C16_EmptyDocumentHasBlock ==
    [][(/\ ast.content = <<>>
        /\ (phase' = "converted" /\ ConvertDoc) \/ (phase' = "serialized" /\ ToNotionDict))
       => /\ result'.children # <<>>
          /\ \E i \in DOMAIN result'.children : result'.children[i].type = "paragraph"
      ]_vars

(***************************************************************************)
(* Headings: HeadingManager.convert, then Heading.to_dict, for every       *)
(* source level from 0 to MaxHeadingLevel.                                 *)
(***************************************************************************)
HeadingLevels == 0..MaxHeadingLevel

InitHeading ==
    /\ ast \in {Header(level, f) : level \in HeadingLevels,
                                   f \in Forests({StrA, Space}, {"Strong"}, 2)}
    /\ base = DefaultAnnotations
    /\ contentIsList = FALSE
    /\ registry = DefaultManagers
    /\ shared = registry
    /\ visited = 0
    /\ config = DefaultConfig
    /\ result = <<>>
    /\ wire = <<>>
    /\ raised = NoException
    /\ phase = "input"

\* HeadingManager.convert(elem)
ConvertHeading ==
    /\ phase = "input"
    /\ Outcome(OnElem(HeadingManager_convert(ast), ast))
    /\ UNCHANGED <<base, contentIsList, registry, shared, visited, config, wire>>

\* heading.to_dict() of the converted heading; the runs are merged in place
SerializeHeading ==
    /\ phase = "converted"
    /\ wire' = <<Heading_to_dict(result[1])>>
    /\ result' = <<[result[1] EXCEPT !.text_content = MergeRun(@).texts]>>
    /\ phase' = "serialized"
    /\ UNCHANGED <<ast, base, contentIsList, registry, shared, visited, config, raised>>

NextHeading == ConvertHeading \/ SerializeHeading

SpecHeading == InitHeading /\ [][NextHeading]_vars

HeadingTypes == <<"heading_1", "heading_2", "heading_3">>

\* min(max(L, 1), 3) written by cases
ClampedLevel(L) == IF L < 1 THEN 1 ELSE IF L > 3 THEN 3 ELSE L

\* C17: for every source heading level L the converted heading stores level
\* min(max(L,1),3) and serializes with type heading_<that level>; levels 4, 5
\* and 6 all give heading_3.
C17_HeadingLevelClamped ==
    phase \in {"converted", "serialized"}
    => /\ raised = NoException
       /\ Len(result) = 1
       /\ result[1].level = ClampedLevel(ast.level)
       /\ result[1].block_type = HeadingTypes[ClampedLevel(ast.level)]
       /\ phase = "serialized"
          => /\ wire[1].type = HeadingTypes[ClampedLevel(ast.level)]
             /\ wire[1].key = wire[1].type
             /\ ast.level \in {4, 5, 6} => wire[1].type = "heading_3"

\* a level-5 heading was serialized as heading_3
C17_Witness ==
    /\ phase = "serialized"
    /\ ast.t = "Header"
    /\ ast.level = 5
    /\ result[1].level = 3
    /\ wire[1].type = "heading_3"

(***************************************************************************)
(* Code blocks: CodeManager.convert, then Code.to_dict, for every alias of *)
(* the language table in lower case, upper case and capitalized, for tags  *)
(* the table does not hold, and for code blocks without classes.           *)
(***************************************************************************)
capitalize(str) == [i \in 1..Len(str) |-> IF i = 1 THEN UpperChar(str[i]) ELSE str[i]]

UnknownTags == {<<"z", "z">>, <<"P", "Y", "X">>, <<"c", "+">>}

LanguageTags ==
    UNION {{key, upper(key), capitalize(key)} : key \in LANGUAGE_KEYS} \cup UnknownTags

\* the classes after the first, which the conversion does not read
OtherClass == <<"n", "u", "m">>

ClassLists ==
    {<<>>} \cup {<<tag>> \o [i \in 1..n |-> OtherClass] :
                    tag \in LanguageTags, n \in 0..(MaxClasses - 1)}

CodeAttributes == {NoAttributes, [caption |-> <<"c">>], [filename |-> <<"f">>]}

InitCode ==
    /\ ast \in {CodeBlock(<<"x">>, classes, attributes) :
                   classes \in ClassLists, attributes \in CodeAttributes}
    /\ base = DefaultAnnotations
    /\ contentIsList = FALSE
    /\ registry = DefaultManagers
    /\ shared = registry
    /\ visited = 0
    /\ config = DefaultConfig
    /\ result = <<>>
    /\ wire = <<>>
    /\ raised = NoException
    /\ phase = "input"

\* CodeManager.convert(elem)
ConvertCode ==
    /\ phase = "input"
    /\ Outcome(OnElem(CodeManager_convert(ast), ast))
    /\ UNCHANGED <<base, contentIsList, registry, shared, visited, config, wire>>

\* code_block.to_dict() of the converted block
SerializeCode ==
    /\ phase = "converted"
    /\ wire' = <<Code_to_dict(result[1])>>
    /\ phase' = "serialized"
    /\ UNCHANGED <<ast, base, contentIsList, registry, shared, visited, config, result, raised>>

NextCode == ConvertCode \/ SerializeCode

SpecCode == InitCode /\ [][NextCode]_vars

\* a and b are the same string up to letter case
SameUpToCase(a, b) ==
    /\ Len(a) = Len(b)
    /\ \A k \in 1..Len(a) :
          \/ a[k] = b[k]
          \/ \E j \in 1..26 : {a[k], b[k]} = {UpperLetters[j], LowerLetters[j]}

\* the table entries whose alias is the tag in some letter case
AliasesOf(tag) == {i \in DOMAIN LANGUAGE_PAIRS : SameUpToCase(tag, LANGUAGE_PAIRS[i][1])}

\* C18: for every (alias, canonical) pair of the language table, a code block
\* whose first class is alias in any letter case converts to language ==
\* canonical; an unknown tag or no class converts to "plain text".
C18_LanguageAliases ==
    phase \in {"converted", "serialized"}
    => /\ raised = NoException
       /\ Len(result) = 1
       /\ ast.classes # <<>>
          => \A i \in AliasesOf(ast.classes[1]) : result[1].language = LANGUAGE_PAIRS[i][2]
       /\ (ast.classes = <<>> \/ AliasesOf(ast.classes[1]) = {})
          => result[1].language = PlainText
       /\ phase = "serialized" => wire[1].language = result[1].language

\* a code block tagged PY was serialized with language python
C18_Witness ==
    /\ phase = "serialized"
    /\ ast.t = "CodeBlock"
    /\ ast.classes # <<>>
    /\ ast.classes[1] = <<"P", "Y">>
    /\ wire[1].language = <<"p", "y", "t", "h", "o", "n">>

(***************************************************************************)
(* Equations: the inline engine on a math node (TextManager.convert) and   *)
(* EquationManager.convert, each followed by to_dict, over math texts of   *)
(* at most MaxChunks pieces.                                               *)
(***************************************************************************)
Tag12 == TagOpen \o <<"1", "2">> \o CloseBrace
LabelAB == LabelOpen \o <<"a", "b">> \o CloseBrace
EqRefAB == EqRef \o <<"{", "a", "b">> \o CloseBrace

\* the pieces: a symbol, a blank, a tag, a label, a reference, the two markers
\* of the equation environment, and a tag that is not closed
MathChunks ==
    {<<"x">>, <<" ">>, Tag12, LabelAB, EqRefAB, BeginEquation, EndEquation, TagOpen}

RECURSIVE Concat(_, _)
Concat(chunks, i) == IF i > Len(chunks) THEN <<>> ELSE chunks[i] \o Concat(chunks, i + 1)

MathTexts == {Concat(c, 1) : c \in UNION {[1..n -> MathChunks] : n \in 0..MaxChunks}}

InitEquation ==
    /\ ast \in {InlineMath(text) : text \in MathTexts}
               \cup {DisplayMath(text) : text \in MathTexts}
    /\ base = DefaultAnnotations
    /\ contentIsList = FALSE
    /\ registry = DefaultManagers
    /\ shared = registry
    /\ visited = 0
    /\ config = DefaultConfig
    /\ result = <<>>
    /\ wire = <<>>
    /\ raised = NoException
    /\ phase = "input"

\* TextManager.convert(elem) of the math node
ConvertInlineMath ==
    /\ phase = "input"
    /\ Outcome(Call(NoException, TextManager_convert(ast), ast))
    /\ UNCHANGED <<base, contentIsList, registry, shared, visited, config, wire>>

\* EquationManager.convert(elem): ValueError unless the format is DisplayMath
ConvertDisplayMath ==
    /\ phase = "input"
    /\ Outcome(OnElem(EquationManager_convert(ast), ast))
    /\ UNCHANGED <<base, contentIsList, registry, shared, visited, config, wire>>

\* to_dict of the converted element or block
SerializeMath ==
    /\ phase = "converted"
    /\ wire' = IF IsBlockObject(result[1]) THEN <<Equation_to_dict(result[1])>>
               ELSE RichText(result)
    /\ phase' = "serialized"
    /\ UNCHANGED <<ast, base, contentIsList, registry, shared, visited, config, result, raised>>

NextEquation == ConvertInlineMath \/ ConvertDisplayMath \/ SerializeMath

SpecEquation == InitEquation /\ [][NextEquation]_vars

\* the normalization of the block-equation path
BlockNormalized(text) == _sanitize_expression(_convert_latex_to_katex(text))

\* C19: the expression of an inline equation emitted by the inline engine is
\* the normalized form of the math node's text, with the normalization of
\* the block-equation path: an enclosing environment wrapper is stripped,
\* every \label{...} span is removed and \eqref is replaced by \ref.
C19_InlineExpressionNormalized ==
    (/\ phase \in {"converted", "serialized"}
     /\ ~IsBlockObject(result[1]))
    => /\ Len(result) = 1
       /\ result[1].cls = "EquationElement"
       /\ result[1].content = BlockNormalized(ast.text)
       /\ phase = "serialized" => wire[1].expression = BlockNormalized(ast.text)

\* whether text holds the marker open followed somewhere by a closing brace
HasSpan(text, open) ==
    \E i \in 1..Len(text) : \E j \in 1..Len(text) :
        /\ i + Len(open) <= j
        /\ SubSeq(text, i, i + Len(open) - 1) = open
        /\ text[j] = "}"

\* the text between the braces of the first span opened by the marker open
Between(text, open) ==
    LET i == CHOOSE i \in 1..Len(text) :
                 /\ SubSeq(text, i, i + Len(open) - 1) = open
                 /\ \A k \in 1..(i - 1) : SubSeq(text, k, k + Len(open) - 1) # open
        j == CHOOSE j \in (i + Len(open))..Len(text) :
                 /\ text[j] = "}"
                 /\ \A k \in (i + Len(open))..(j - 1) : text[k] # "}"
    IN SubSeq(text, i + Len(open), j - 1)

\* C20: for a display equation, EquationManager.convert sets equation_number
\* to exactly the text between the braces of the first \tag{...} when there is
\* a tag, otherwise to the text between the braces of the first \label{...},
\* otherwise to none.
C20_NumberFromTagOrLabel ==
    (/\ phase \in {"converted", "serialized"}
     /\ IsBlockObject(result[1]))
    => result[1].equation_number
           = IF HasSpan(ast.text, TagOpen) THEN Between(ast.text, TagOpen)
             ELSE IF HasSpan(ast.text, LabelOpen) THEN Between(ast.text, LabelOpen)
             ELSE NoString

(***************************************************************************)
(* Frame conditions of to_dict and of the list conversion.                 *)
(***************************************************************************)
\* C21: to_dict of a Paragraph does not mutate the block: its stored inline
\* runs are the same before and after the call, and serializing the block a
\* second time returns an equal result.
C21_ToDictDoesNotMutate ==
    [][SerializeParagraph
       => /\ result' = result
          /\ \A i \in DOMAIN result' : Paragraph_to_dict(result'[i]) = wire'[i]
      ]_vars

\* C22: converting a list node leaves the input AST unchanged, so converting
\* the same node a second time yields the same item kinds, checked flags and
\* item text as the first conversion.
C22_ListConversionKeepsAst ==
    [][ConvertList
       => /\ ast' = ast
          /\ ListManager_convert(ast').value = result'
      ]_vars

(***************************************************************************)
(* The shared registry: a filter holds registry R; ManagerRegistry.__init__ *)
(* of any registry built afterwards calls set_registry(self).               *)
(***************************************************************************)
\* ManagerRegistry(managers): the defaults when managers is empty or None
ManagerRegistry(managers) == IF managers = <<>> THEN DefaultManagers ELSE managers

SharedNodes ==
    {BlockQuote(f) : f \in Forests(QuoteLeaves, {"BlockQuote"}, 2)}
    \cup {Para(<<StrA>>), Block("HorizontalRule", <<>>)}

\* NotionFilter(registry=ManagerRegistry(managers)): the construction of the
\* registry made it the shared one
InitShared ==
    /\ ast \in SharedNodes
    /\ base = DefaultAnnotations
    /\ contentIsList \in BOOLEAN
    /\ registry \in {ManagerRegistry(m) : m \in {<<>>} \cup {<<c>> : c \in AllManagers}}
    /\ shared = registry
    /\ visited = 0
    /\ config = DefaultConfig
    /\ result = <<>>
    /\ wire = <<>>
    /\ raised = NoException
    /\ phase = "input"

\* ManagerRegistry(managers) constructed elsewhere: set_registry(self)
ConstructRegistry ==
    /\ phase = "input"
    /\ \E m \in {<<>>} \cup {<<c>> : c \in AllManagers} : shared' = ManagerRegistry(m)
    /\ UNCHANGED <<ast, base, contentIsList, registry, visited, config, result, wire, raised, phase>>

\* self.registry.convert_element(elem) of the filter
ConvertHeld ==
    /\ phase = "input"
    /\ Outcome(ManagerRegistry_convert_element(registry, ast, contentIsList, shared))
    /\ UNCHANGED <<base, contentIsList, registry, shared, visited, config, wire>>

NextShared == ConstructRegistry \/ ConvertHeld

SpecShared == InitShared /\ [][NextShared]_vars

\* C23: after any sequence of ManagerRegistry constructions, a filter that
\* holds registry R dispatches the children of a blockquote through R as
\* well: the nested conversion uses the manager list of the top-level dispatch.
C23_NestedDispatchThroughHeld ==
    [][ConvertHeld
       => /\ result'
                = ManagerRegistry_convert_element(registry, ast, contentIsList, registry).value
          /\ raised'
                = ManagerRegistry_convert_element(registry, ast, contentIsList, registry).raised
      ]_vars

(***************************************************************************)
(* Blockquote children.                                                    *)
(***************************************************************************)
\* the blocks a child of a blockquote gives when it is converted on its own
\* through the shared registry: none when no manager accepts it or when its
\* conversion raises
ChildBlocks(r) == IF r.raised = NoException THEN r.value ELSE <<>>

QuietChild(elem, cil, reg) ==
    IF RegistryMixin_find_manager(reg, elem) = NoManager THEN <<>>
    ELSE ChildBlocks(ManagerConvert(RegistryMixin_find_manager(reg, elem), elem, cil, reg))

RECURSIVE QuietChildren(_, _, _, _)
QuietChildren(content, i, cil, reg) ==
    IF i > Len(content) THEN <<>>
    ELSE QuietChild(content[i], cil, reg) \o QuietChildren(content, i + 1, cil, reg)

\* the sequence ends with the expected blocks
SuffixIs(children, expected) ==
    /\ Len(children) >= Len(expected)
    /\ SubSeq(children, Len(children) - Len(expected) + 1, Len(children)) = expected

\* C24: when converting a blockquote, a child no manager matches or whose
\* conversion raises any error is omitted silently: QuoteManager.convert still
\* returns the quote, with the remaining children converted in source order.
C24_FailedChildrenDropped ==
    [][ConvertQuote
       => /\ raised' = NoException
          /\ Len(result') = 1
          /\ result'[1].block_type = "quote"
          /\ SuffixIs(result'[1].children, QuietChildren(ast.content, 2, contentIsList, shared))
      ]_vars

\* every child block of the converted first child q is among the children
ChildrenKept(q, children) ==
    q # <<>> => \A j \in DOMAIN q[1].children :
                    \E k \in DOMAIN children : children[k] = q[1].children[j]

\* C25: no convertible content of a blockquote is lost; when the first child
\* is itself a blockquote, the child blocks of that first child still appear
\* in the output quote.
C25_FirstChildContentKept ==
    [][(/\ ConvertQuote
        /\ raised' = NoException
        /\ ast.content # <<>>
        /\ ast.content[1].t = "BlockQuote")
       => ChildrenKept(QuietChild(ast.content[1], contentIsList, shared),
                       result'[1].children)
      ]_vars

(***************************************************************************)
(* Run merging.  managers/text_manager_inline.py holds a second            *)
(* merge_consecutive_texts: it keeps the run being built in `current`      *)
(* (here a sequence of at most one element) and appends it when a non-Text *)
(* element or a Text of another format arrives, and at the end.            *)
(***************************************************************************)
RECURSIVE MergeInlineFrom(_, _, _, _)
MergeInlineFrom(elements, i, res, current) ==
    IF i > Len(elements) THEN res \o current
    ELSE LET element == elements[i]
         IN IF element.cls # "Text"
            THEN MergeInlineFrom(elements, i + 1, Append(res \o current, element), <<>>)
            ELSE IF current = <<>>
            THEN MergeInlineFrom(elements, i + 1, res, <<element>>)
            ELSE IF /\ current[1].annotations = element.annotations
                    /\ current[1].link = element.link
            THEN MergeInlineFrom(elements, i + 1, res,
                     <<[current[1] EXCEPT !.content = @ \o element.content]>>)
            ELSE MergeInlineFrom(elements, i + 1, res \o current, <<element>>)

merge_consecutive_texts_inline(elements) == MergeInlineFrom(elements, 1, <<>>, <<>>)

MaxRun == 3

RunElements ==
    {Text(c, a, l) : c \in {<<"a">>, <<"b">>},
                     a \in {DefaultAnnotations, Annotations(TRUE, FALSE)},
                     l \in {NoLink, <<"u">>}}
        \cup {CodeElement(<<"c">>, DefaultAnnotations),
              EquationElement(<<"m">>, DefaultAnnotations)}

Runs == UNION {[1..n -> RunElements] : n \in 0..MaxRun}

\* a list of inline elements, as a block holds it in text_content
InitMerge ==
    /\ ast = Para(<<>>)
    /\ base = DefaultAnnotations
    /\ contentIsList = FALSE
    /\ registry = DefaultManagers
    /\ shared = registry
    /\ visited = 0
    /\ config = DefaultConfig
    /\ result \in Runs
    /\ wire = <<>>
    /\ raised = NoException
    /\ phase = "input"

\* merge_consecutive_texts of models/text.py on the list, then on what it returned
MergeTexts ==
    /\ phase \in {"input", "merged"}
    /\ result' = merge_consecutive_texts(result)
    /\ phase' = IF phase = "input" THEN "merged" ELSE "remerged"
    /\ UNCHANGED <<ast, base, contentIsList, registry, shared, visited, config, wire, raised>>

\* merge_consecutive_texts of managers/text_manager_inline.py, likewise
MergeTextsInline ==
    /\ phase \in {"input", "merged"}
    /\ result' = merge_consecutive_texts_inline(result)
    /\ phase' = IF phase = "input" THEN "merged" ELSE "remerged"
    /\ UNCHANGED <<ast, base, contentIsList, registry, shared, visited, config, wire, raised>>

NextMerge == MergeTexts \/ MergeTextsInline

SpecMerge == InitMerge /\ [][NextMerge]_vars

\* two neighbours that the merge pass would have joined
Mergeable(x, y) ==
    /\ x.cls = "Text"
    /\ y.cls = "Text"
    /\ x.annotations = y.annotations
    /\ x.link = y.link

\* the elements that are not Text, in order
RECURSIVE NonText(_, _)
NonText(elements, i) ==
    IF i > Len(elements) THEN <<>>
    ELSE (IF elements[i].cls = "Text" THEN <<>> ELSE <<elements[i]>>)
         \o NonText(elements, i + 1)

\* get_content() of every element, concatenated
RECURSIVE Contents(_, _)
Contents(elements, i) ==
    IF i > Len(elements) THEN <<>>
    ELSE elements[i].content \o Contents(elements, i + 1)

\* C26: after the merge pass no two adjacent elements are both Text with the
\* same annotations and link, the non-Text elements are the same and in the
\* same order, and the concatenated content equals that of the input.
C26_MergedRuns ==
    [][(phase = "input" /\ NextMerge)
       => /\ \A i \in 1..(Len(result') - 1) : ~Mergeable(result'[i], result'[i + 1])
          /\ NonText(result', 1) = NonText(result, 1)
          /\ Contents(result', 1) = Contents(result, 1)
      ]_vars

\* two Text runs were joined in front of an equation
C26_Witness ==
    /\ phase = "merged"
    /\ Len(result) = 2
    /\ result[1].cls = "Text"
    /\ Len(result[1].content) = 2
    /\ result[2].cls = "EquationElement"

\* C27: merging is idempotent: merging a merged list returns it unchanged,
\* element by element.
C27_MergeIdempotent ==
    [][(phase = "merged" /\ NextMerge) => result' = result]_vars

\* a merged list holding a joined run and another element was merged again
C27_Witness ==
    /\ phase = "remerged"
    /\ Len(result) = 2
    /\ Len(result[1].content) = 2

(***************************************************************************)
(* Text preservation of the stream processor: inline content with spaces   *)
(* and line breaks under nested Strong and Emph nodes.                     *)
(***************************************************************************)
MaxStreamNodes == 3

StreamLeaves ==
    {Str(<<"a">>), Space, LineBreak, SoftBreak, Code(<<"c">>), InlineMath(<<"m">>)}

InitStream ==
    /\ ast \in {Para(f) : f \in Forests(StreamLeaves, FormatKinds, MaxStreamNodes)}
    /\ base \in BaseAnnotations
    /\ contentIsList = FALSE
    /\ registry = DefaultManagers
    /\ shared = registry
    /\ visited = 0
    /\ config = DefaultConfig
    /\ result = <<>>
    /\ wire = <<>>
    /\ raised = NoException
    /\ phase = "input"

SpecStream == InitStream /\ [][NextText]_vars

\* the text of the leaf tokens of a forest, in document order
RECURSIVE LeafTexts(_, _)
LeafTexts(elements, i) ==
    IF i > Len(elements) THEN <<>>
    ELSE (IF elements[i].content = <<>>
          THEN LeafText(elements[i])
          ELSE LeafTexts(elements[i].content, 1))
         \o LeafTexts(elements, i + 1)

\* C28: the get_content() of the elements create_text_elements emits,
\* concatenated, is the text of all leaf tokens in document order (a space as
\* " ", a line break as a newline, inline code and inline math as their text)
\* at any depth under Strong and Emph: nothing is dropped, duplicated or
\* reordered, also under a formatting node that does not change the flag.
C28_TextPreserved ==
    (phase = "converted") => Contents(result, 1) = LeafTexts(ast.content, 1)

\* text pending in front of a Strong node inside bold text went into one run
\* with the text of that node
C28_Witness ==
    /\ phase = "converted"
    /\ base.bold
    /\ Len(ast.content) = 2
    /\ ast.content[1].t = "Space"
    /\ ast.content[2].t = "Strong"
    /\ ast.content[2].content = <<LineBreak>>
    /\ result = <<Text(<<" ", "\n">>, base, NoLink)>>

(***************************************************************************)
(* Canonical language names: CodeManager.create_code_block                 *)
(***************************************************************************)
\* the canonical names: every language the table can produce, and the default
CanonicalLanguages == {LANGUAGE_PAIRS[i][2] : i \in DOMAIN LANGUAGE_PAIRS} \cup {PlainText}

create_code_block(code, language, caption) ==
    CodeModel(code, _map_language(language), caption)

InitCreate ==
    /\ ast = CodeBlock(<<>>, <<>>, <<>>)
    /\ base = DefaultAnnotations
    /\ contentIsList = FALSE
    /\ registry = DefaultManagers
    /\ shared = registry
    /\ visited = 0
    /\ config = DefaultConfig
    /\ result = <<>>
    /\ wire = <<>>
    /\ raised = NoException
    /\ phase = "input"

\* CodeManager.create_code_block(code, language, caption)
CreateCodeBlock(code, language, caption) ==
    /\ phase = "input"
    /\ result' = <<create_code_block(code, language, caption)>>
    /\ phase' = "created"
    /\ UNCHANGED <<ast, base, contentIsList, registry, shared, visited, config, wire, raised>>

NextCreate ==
    \E code \in {<<"x">>, <<"y">>}, language \in CanonicalLanguages,
       caption \in {NoString, <<"c">>} :
        CreateCodeBlock(code, language, caption)

SpecCreate == InitCreate /\ [][NextCreate]_vars

\* C29: _map_language is idempotent on its own outputs: for every canonical
\* name c the table can produce, mapping c again returns c, so
\* create_code_block with a canonical language keeps that language.
C29_CanonicalLanguageKept ==
    [][\A code \in {<<"x">>, <<"y">>}, c \in CanonicalLanguages,
          caption \in {NoString, <<"c">>} :
           CreateCodeBlock(code, c, caption) => result'[1].language = c
      ]_vars

(***************************************************************************)
(* filter.py in pandoc-filter mode: pf.run_filter(main, prepare, finalize). *)
(* The walker hands every element of the document body to main, the        *)
(* children of a node before the node itself, and the Doc last.  The       *)
(* documents here have no metadata block.  result is doc.notion_blocks,    *)
(* wire the children of the page finalize emits.                           *)
(***************************************************************************)
\* the elements below content in walking order, each as its path of indices
RECURSIVE PostOrder(_, _, _)
PostOrder(content, prefix, i) ==
    IF i > Len(content) THEN <<>>
    ELSE PostOrder(content[i].content, Append(prefix, i), 1)
         \o <<Append(prefix, i)>>
         \o PostOrder(content, prefix, i + 1)

Walk(doc) == PostOrder(doc.content, <<>>, 1)

RECURSIVE ElemAt(_, _)
ElemAt(content, path) ==
    IF Len(path) = 1 THEN content[path[1]]
    ELSE ElemAt(content[path[1]].content, Tail(path))

\* content with the element at path replaced by elem
RECURSIVE ReplaceAt(_, _, _)
ReplaceAt(content, path, elem) ==
    IF Len(path) = 1 THEN [content EXCEPT ![path[1]] = elem]
    ELSE [content EXCEPT ![path[1]] =
             [content[path[1]] EXCEPT !.content =
                 ReplaceAt(content[path[1]].content, Tail(path), elem)]]

\* lines 380-386 of main: a non-empty converted list extends doc.notion_blocks;
\* line 391: an exception is logged and main returns
Collected(r, notion_blocks) ==
    [notion_blocks |-> IF r.raised = "None" THEN notion_blocks \o r.value
                       ELSE notion_blocks,
     elem |-> r.elem]

\* lines 378-386 of main for an element that is not the Doc
main(elem, notion_blocks, cil, reg) ==
    IF ManagerRegistry_find_manager(reg, elem) = NoManager
    THEN [notion_blocks |-> notion_blocks, elem |-> elem]
    ELSE Collected(ManagerConvert(ManagerRegistry_find_manager(reg, elem), elem, cil, reg),
                   notion_blocks)

\* block.to_dict() in finalize: every object with a to_dict method, inline
\* elements included
FinalizeDicts(block) ==
    IF "cls" \in DOMAIN block THEN <<InlineToDict(block)>> ELSE BlockToDicts(block)

RECURSIVE FinalizeFrom(_, _)
FinalizeFrom(notion_blocks, i) ==
    IF i > Len(notion_blocks) THEN <<>>
    ELSE FinalizeDicts(notion_blocks[i]) \o FinalizeFrom(notion_blocks, i + 1)

\* serialized_blocks of finalize: the title block, then the collected blocks
finalize(config_, notion_metadata, notion_blocks) ==
    IF TitleDicts(config_, notion_metadata).raised # "None"
    THEN TitleDicts(config_, notion_metadata)
    ELSE Returns(TitleDicts(config_, notion_metadata).value
                 \o FinalizeFrom(notion_blocks, 1))

MaxFilterBlocks == 2

FilterBlocks ==
    {Para(<<StrA>>),
     Header(4, <<StrA>>),
     BlockQuote(<<Para(<<StrA>>)>>),
     Block("BulletList", <<ListItemNode(<<Plain(TickA)>>)>>),
     Block("HorizontalRule", <<>>)}

FilterDocs ==
    {Doc(content, NoMetadata) :
        content \in UNION {[1..n -> FilterBlocks] : n \in 0..MaxFilterBlocks}}

\* before prepare: no registry was constructed yet
InitFilter ==
    /\ ast \in FilterDocs
    /\ base = DefaultAnnotations
    /\ contentIsList \in BOOLEAN
    /\ registry = <<>>
    /\ shared = <<>>
    /\ visited = 0
    /\ config = DefaultConfig
    /\ result = <<>>
    /\ wire = <<>>
    /\ raised = NoException
    /\ phase = "input"

\* prepare(doc): doc.notion_blocks = [], the configuration of the --config
\* file or the defaults
Prepare ==
    /\ phase = "input"
    /\ ast.t = "Doc"
    /\ result' = <<>>
    /\ \E c \in Configs : config' = c
    /\ phase' = "walking"
    /\ UNCHANGED <<ast, base, contentIsList, registry, shared, visited, wire, raised>>

\* main(elem, doc) for the next element of the walk; the first call
\* constructs doc.notion_registry = ManagerRegistry()
Main ==
    /\ phase = "walking"
    /\ visited < Len(Walk(ast))
    /\ registry' = IF registry = <<>> THEN ManagerRegistry(<<>>) ELSE registry
    /\ shared' = IF registry = <<>> THEN ManagerRegistry(<<>>) ELSE shared
    /\ result' = main(ElemAt(ast.content, Walk(ast)[visited + 1]), result,
                      contentIsList, registry').notion_blocks
    /\ ast' = [ast EXCEPT !.content =
                  ReplaceAt(ast.content, Walk(ast)[visited + 1],
                            main(ElemAt(ast.content, Walk(ast)[visited + 1]), result,
                                 contentIsList, registry').elem)]
    /\ visited' = IndexOf(Walk(ast'), Walk(ast)[visited + 1])
    /\ UNCHANGED <<base, contentIsList, config, wire, raised, phase>>

\* main(doc, doc): the Doc itself is skipped
MainDoc ==
    /\ phase = "walking"
    /\ visited = Len(Walk(ast))
    /\ visited' = visited + 1
    /\ UNCHANGED <<ast, base, contentIsList, registry, shared, config, result, wire,
                   raised, phase>>

\* finalize(doc): the children of the emitted page
Finalize ==
    /\ phase = "walking"
    /\ visited = Len(Walk(ast)) + 1
    /\ wire' = finalize(config, _extract_metadata(ast), result).value
    /\ raised' = finalize(config, _extract_metadata(ast), result).raised
    /\ phase' = IF raised' = NoException THEN "serialized" ELSE "failed"
    /\ UNCHANGED <<ast, base, contentIsList, registry, shared, visited, config, result>>

NextFilter == Prepare \/ Main \/ MainDoc \/ Finalize

SpecFilter == InitFilter /\ [][NextFilter]_vars

\* the wire blocks of the top-level block nodes, in document order
TopLevelBlocks(doc, cil) ==
    Filter_to_notion_dict(doc, cil, DefaultManagers).value.children

\* C30: in pandoc-filter mode the children of the emitted page are exactly the
\* wire blocks of the top-level block nodes, each once and in document order:
\* nested blocks and inline elements visited by main add no entry, and every
\* entry has object == "block".
C30_OnlyTopLevelBlocks ==
    (phase = "serialized")
    => /\ \A i \in DOMAIN wire : "object" \in DOMAIN wire[i] /\ wire[i].object = "block"
       /\ wire = TopLevelBlocks(ast, contentIsList)

====
